---------------------------- MODULE Spec2Model ----------------------------
(***************************************************************************)
(* A model of the just-json streaming decoder (src/json-read.h).           *)
(*                                                                         *)
(* Bytes are one-character strings; the raw control bytes are "\n", "\t",  *)
(* "\r", "\f" and BS (0x08); NUL is the zero byte.  EOF is the value fgetc *)
(* returns at end of stream.  j->c is a plain char: where plain char is    *)
(* signed it holds EOF as -1, where it is unsigned it holds 255 (XFF),     *)
(* which compares unequal to EOF.  Which of the two the build has is       *)
(* chosen when a session starts.  Input bytes are ASCII, so no input byte  *)
(* compares equal to EOF or XFF.                                           *)
(***************************************************************************)
EXTENDS Integers, Sequences, FiniteSets, TLC

VARIABLES
  j,      \* the JSON_Read_Data of the session (its FILE included)
  buf,    \* the static char buf[] of jsonr_read_stringlen
  val,    \* the caller's const char *val / *key out-parameter
  len,    \* the caller's unsigned long len out-parameter
  op,     \* the decoder operation called last
  arg,    \* its key argument (<<>> when it has none)
  ret,    \* its int return value (0 for a void operation)
  num,    \* the double returned by the last jsonr_v_number
  pre,    \* the JSON_Read_Data as it was when that operation was called
  pc,     \* position of the calling loop (SpecLoop)
  prog,   \* the calling loop's shape (SpecLoop)
  ip,     \* index of the key the loop body probes next (SpecLoop)
  trues,  \* how often the loop predicate has returned true (SpecLoop)
  got,    \* the values the loop body has captured, in order (SpecLoop)
  doc,    \* what the input document is made of
  others, \* a second decode session of the process (SpecTwo)
  jw      \* the JSON_Write_Data of the encoder (SpecWrite, SpecRound)

vars ==
  <<j, buf, val, len, op, arg, ret, num, pre, pc, prog, ip, trues, got, doc,
    others, jw>>

\* F of the value of e, with e evaluated once
With(e, F(_)) == CHOOSE r \in {F(x) : x \in {e}} : TRUE

-----------------------------------------------------------------------------
(* Bytes *)

EOF == "EOF"
XFF == "xFF"
NUL == "NUL"
BS  == "BS"
QUOTE == "\""
BACKSLASH == "\\"

Digits == <<"0", "1", "2", "3", "4", "5", "6", "7", "8", "9">>

isdigit(ch) == \E i \in 1..Len(Digits) : Digits[i] = ch

DigitVal(ch) == (CHOOSE i \in 1..Len(Digits) : Digits[i] = ch) - 1

\* <ctype.h> isspace in the C locale; isspace(EOF) is 0
isspace(ch) == ch \in {" ", "\t", "\n", "\f", "\r"}

-----------------------------------------------------------------------------
(* The FILE: data, the read position, and the byte pushed back by ungetc.  *)
(* seek tells what the stream does when asked for its position: "ok" is a  *)
(* stream that tells and seeks (a file, fmemopen), "notell" one that does  *)
(* neither (a pipe: ftell returns -1 and fseek fails), "noseek" one that   *)
(* tells its position and fails to seek.                                   *)

fopen(data) == [data |-> data, pos |-> 0, back |-> <<>>, seek |-> "ok"]

\* a stream over data that does not tell or does not seek
Unseekable(data, seek) == [fopen(data) EXCEPT !.seek = seek]

\* the bytes the stream will still deliver, in order
Rest(f) == f.back \o SubSeq(f.data, f.pos + Len(f.back) + 1, Len(f.data))

\* the stream after n of those bytes were read
Consume(f, n) ==
  IF n = 0 THEN f ELSE [f EXCEPT !.pos = @ + n, !.back = <<>>]

fgetc(f) ==
  IF Rest(f) = <<>>
    THEN [f |-> f, ch |-> EOF]
    ELSE [f |-> Consume(f, 1), ch |-> Rest(f)[1]]

ftell(f) == IF f.seek = "notell" THEN 0 - 1 ELSE f.pos

\* fseek(f, pos, SEEK_SET) fails when pos is negative or the stream does
\* not seek
fseek_fails(f, pos) == pos < 0 \/ f.seek # "ok"

\* the stream after fseek(f, pos, SEEK_SET); a seek that fails leaves the
\* position, and the stream drops the byte pushed back all the same
fseek(f, pos) ==
  IF fseek_fails(f, pos)
    THEN [f EXCEPT !.pos = @ + Len(f.back), !.back = <<>>]
    ELSE [f EXCEPT !.pos = pos, !.back = <<>>]

\* ungetc(EOF, f) fails and returns EOF
ungetc(ch, f) ==
  IF ch = EOF
    THEN [f |-> f, ch |-> EOF]
    ELSE [f |-> [f EXCEPT !.pos = @ - 1, !.back = <<ch>>], ch |-> ch]


-----------------------------------------------------------------------------
(* The host's fscanf(f, "%lf", &val), as glibc scans a decimal float:      *)
(* leading whitespace, an optional sign, then digits with at most one '.'  *)
(* and, once a digit was seen, one exponent mark with its optional sign;   *)
(* or the words nan / inf / infinity.  The byte that ends the number is    *)
(* pushed back; inside a word a mismatching byte is consumed.  Hexadecimal *)
(* floats ("0x...") are not modelled.                                      *)

\* a double: kind "fin" is m * 10^e
Double(m, e) == [kind |-> "fin", m |-> m, e |-> e]

Zero == Double(0, 0)

RECURSIVE SpaceEnd(_, _)
\* index of the first byte of s at or after i that is no whitespace
SpaceEnd(s, i) ==
  IF i <= Len(s) /\ isspace(s[i]) THEN SpaceEnd(s, i + 1) ELSE i

RECURSIVE NumberEnd(_, _, _, _, _)
\* index after the last byte of the number that starts at i
NumberEnd(s, i, got_digit, got_dot, got_e) ==
  IF i > Len(s) THEN i
  ELSE IF isdigit(s[i]) THEN NumberEnd(s, i + 1, TRUE, got_dot, got_e)
  ELSE IF s[i] = "." /\ ~got_dot /\ ~got_e
    THEN NumberEnd(s, i + 1, got_digit, TRUE, got_e)
  ELSE IF s[i] \in {"e", "E"} /\ got_digit /\ ~got_e
    THEN NumberEnd(s, IF i + 1 <= Len(s) /\ s[i + 1] \in {"+", "-"}
                        THEN i + 2 ELSE i + 1,
                   got_digit, got_dot, TRUE)
  ELSE i

RECURSIVE WordEnd(_, _, _, _)
\* matches w[k..] at s[i..]: the index after the bytes consumed, and whether
\* the whole word was there
WordEnd(s, i, w, k) ==
  IF k > Len(w) THEN [ok |-> TRUE, end |-> i]
  ELSE IF i > Len(s) THEN [ok |-> FALSE, end |-> i]
  ELSE IF s[i] = w[k] THEN WordEnd(s, i + 1, w, k + 1)
  ELSE [ok |-> FALSE, end |-> i + 1]

RECURSIVE DigitsValue(_, _, _, _)
\* the decimal value of the digits among s[i..k-1], after acc
DigitsValue(s, i, k, acc) ==
  IF i >= k THEN acc
  ELSE DigitsValue(s, i + 1, k,
                   IF isdigit(s[i]) THEN acc * 10 + DigitVal(s[i]) ELSE acc)

\* the first index in i..k-1 where s holds a byte of set S, or k
FirstOf(s, i, k, S) ==
  IF \E x \in i..(k - 1) : s[x] \in S
    THEN CHOOSE x \in i..(k - 1) :
           s[x] \in S /\ \A y \in i..(x - 1) : s[y] \notin S
    ELSE k

\* strtod of the number text s[i..k-1] (sign excluded), negated when neg
NumberValue(s, i, k, neg) ==
  LET e_at   == FirstOf(s, i, k, {"e", "E"})
      dot_at == FirstOf(s, i, e_at, {"."})
      frac   == Cardinality({x \in (dot_at + 1)..(e_at - 1) : isdigit(s[x])})
      mant   == DigitsValue(s, i, e_at, 0)
      eneg   == e_at + 1 < k /\ s[e_at + 1] = "-"
      expo   == DigitsValue(s, e_at + 1, k, 0)
  IN  Double(IF neg THEN 0 - mant ELSE mant,
             (IF eneg THEN 0 - expo ELSE expo) - frac)

\* [result, n, val]: fscanf's return value, the bytes it consumed from s,
\* and the double it stored (when result = 1)
ScanFloat(s) ==
  LET a    == SpaceEnd(s, 1)
      sgn  == a <= Len(s) /\ s[a] \in {"+", "-"}
      neg  == sgn /\ s[a] = "-"
      b    == IF sgn THEN a + 1 ELSE a
      fail(n) == [result |-> 0, n |-> n, val |-> Zero]
  IN  IF a > Len(s) THEN [result |-> 0 - 1, n |-> a - 1, val |-> Zero]
      ELSE IF b > Len(s) THEN fail(b - 1)
      ELSE IF s[b] = "n" THEN
        LET w == WordEnd(s, b + 1, <<"a", "n">>, 1)
        IN  IF w.ok THEN [result |-> 1, n |-> w.end - 1,
                          val |-> [kind |-> "nan", m |-> 0, e |-> 0]]
            ELSE fail(w.end - 1)
      ELSE IF s[b] = "i" THEN
        LET w == WordEnd(s, b + 1, <<"n", "f">>, 1)
            inf == [kind |-> "inf", m |-> IF neg THEN 0 - 1 ELSE 1, e |-> 0]
        IN  IF ~w.ok THEN fail(w.end - 1)
            ELSE IF w.end <= Len(s) /\ s[w.end] = "i" THEN
              LET v == WordEnd(s, w.end + 1, <<"n", "i", "t", "y">>, 1)
              IN  IF v.ok THEN [result |-> 1, n |-> v.end - 1, val |-> inf]
                  ELSE fail(v.end - 1)
            ELSE [result |-> 1, n |-> w.end - 1, val |-> inf]
      ELSE
        LET k == NumberEnd(s, b, FALSE, FALSE, FALSE)
        IN  IF \E x \in b..(k - 1) : isdigit(s[x])
              THEN [result |-> 1, n |-> k - 1, val |-> NumberValue(s, b, k, neg)]
              ELSE fail(k - 1)

fscanf_lf(f) ==
  With(ScanFloat(Rest(f)), LAMBDA sc :
    [f |-> Consume(f, sc.n), result |-> sc.result, val |-> sc.val])

-----------------------------------------------------------------------------
(* The cursor *)

jsonr_error(jd) == [jd EXCEPT !.error = 1]

\* (char)ch of an int ch returned by fgetc
ToChar(jd, ch) == IF ch = EOF /\ jd.uchar = 1 THEN XFF ELSE ch

\* mutant of _ensure_char: the pending-read flag is not looked at
_ensure_char_always(jd) ==
  With(fgetc(jd.f), LAMBDA g :
    [jd EXCEPT !.read = 0, !.c = ToChar(jd, g.ch), !.f = g.f,
               !.column = @ + 1])

_ensure_char(jd) ==
  IF jd.read = 1
    THEN With(fgetc(jd.f), LAMBDA g :
           [jd EXCEPT !.read = 0, !.c = ToChar(jd, g.ch), !.f = g.f,
                      !.column = @ + 1])
    ELSE jd

_advance(jd) == [jd EXCEPT !.read = 1]

\* mutant of _comma: the comma is seen and not consumed
_comma_keeps(jd) == _ensure_char(jd)

_comma(jd) ==
  With(_ensure_char(jd), LAMBDA j1 :
    IF j1.c = "," THEN _advance(j1) ELSE j1)

RECURSIVE _skip_whitespace(_)
_skip_whitespace(jd) ==
  With(_ensure_char(jd), LAMBDA j1 :
    IF isspace(j1.c)
      THEN _skip_whitespace(_advance(
             IF j1.c = "\n"
               THEN [j1 EXCEPT !.line = @ + 1, !.column = 0]
               ELSE j1))
      ELSE j1)

_str_are_equal(a, a_length, b, b_length) ==
  IF a_length # b_length THEN 0
  ELSE IF \E i \in 1..a_length : a[i] # b[i] THEN 0
  ELSE 1

jsonr_peek_begin(jd) ==
  With([c |-> jd.c, line |-> jd.line, column |-> jd.column,
        pos |-> ftell(jd.f), read |-> jd.read], LAMBDA peek :
    [j |-> IF peek.pos = 0 - 1 THEN jsonr_error(jd) ELSE jd, peek |-> peek])

\* mutant of jsonr_peek_end: the stream is not repositioned
jsonr_peek_end_noseek(jd, peek) ==
  [jd EXCEPT !.c = peek.c, !.line = peek.line, !.column = peek.column,
             !.read = peek.read]

\* mutant of jsonr_peek_end: the error flag goes back with the snapshot
jsonr_peek_end_clears(jd, peek) ==
  [jd EXCEPT !.c = peek.c, !.line = peek.line, !.column = peek.column,
             !.read = peek.read, !.f = fseek(jd.f, peek.pos), !.error = 0]

jsonr_peek_end(jd, peek) ==
  With([jd EXCEPT !.c = peek.c, !.line = peek.line, !.column = peek.column,
                  !.read = peek.read, !.f = fseek(jd.f, peek.pos)],
       LAMBDA j1 :
         IF fseek_fails(jd.f, peek.pos) THEN jsonr_error(j1) ELSE j1)

jsonr_init(f) ==
  [f |-> f, c |-> NUL, error |-> 0, read |-> 1, line |-> 1, column |-> 0]

\* the builds: plain char is signed (0) or unsigned (1)
PlainChar == {0, 1}

\* a session jsonr_init has set up, on a build whose plain char is given by
\* uchar; overrun becomes 1 when a call writes past the end of the static
\* buffer of jsonr_read_stringlen: the behaviour is undefined from there on
\* and nothing more is said of the session
Session(f, uchar) == jsonr_init(f) @@ [uchar |-> uchar, overrun |-> 0]

-----------------------------------------------------------------------------
(* Tables and arrays.  Operations that return an int give [j, ret]. *)

jsonr_v_table_begin(jd) ==
  IF jd.error = 1 THEN [j |-> jd, ret |-> 0]
  ELSE With(_skip_whitespace(jd), LAMBDA j1 :
         IF j1.c = "{" THEN [j |-> _advance(j1), ret |-> 1]
         ELSE IF j1.c = EOF THEN [j |-> jsonr_error(j1), ret |-> 0]
         ELSE [j |-> j1, ret |-> 0])

jsonr_v_table_can_read(jd) ==
  IF jd.error = 1 THEN [j |-> jd, ret |-> 0]
  ELSE With(_skip_whitespace(jd), LAMBDA j1 :
         IF j1.c = "}" THEN [j |-> _comma(_advance(j1)), ret |-> 0]
         ELSE [j |-> j1, ret |-> 1])

jsonr_v_array_begin(jd) ==
  IF jd.error = 1 THEN [j |-> jd, ret |-> 0]
  ELSE With(_skip_whitespace(jd), LAMBDA j1 :
         IF j1.c = "[" THEN [j |-> _advance(j1), ret |-> 1]
         ELSE IF j1.c = EOF THEN [j |-> jsonr_error(j1), ret |-> 0]
         ELSE [j |-> j1, ret |-> 0])

jsonr_v_array_can_read(jd) ==
  IF jd.error = 1 THEN [j |-> jd, ret |-> 0]
  ELSE With(_skip_whitespace(jd), LAMBDA j1 :
         IF j1.c = "]" THEN [j |-> _comma(_advance(j1)), ret |-> 0]
         ELSE [j |-> j1, ret |-> 1])

-----------------------------------------------------------------------------
(* Strings and keys.  b is the static buffer, v and l the caller's *val    *)
(* and *len; the result holds what each is after the call.  The buffer is  *)
(* kept up to the highest index written so far; bytes of it never written  *)
(* are NUL (static storage).                                               *)

\* the capacity of buf.  The source has 1024*8; the loop of
\* jsonr_read_stringlen never compares *len with it, so a smaller capacity
\* with literals shorter than, as long as and longer than it shows the same
\* cases.  It holds every key and string of the sample documents.
JSONR_STRINGLEN_READ_BUFFER_SIZE == 8

\* buffer b known up to index n at least
Pad(b, n) ==
  IF Len(b) >= n THEN b ELSE b \o [i \in 1..(n - Len(b)) |-> NUL]

\* buf[i] = ch, i counted from 0
BufWrite(b, i, ch) == [Pad(b, i + 1) EXCEPT ![i + 1] = ch]

\* mutant of Unescape: a letter that names no escape is not kept
Unescape_known(ch) ==
  CASE ch = QUOTE     -> QUOTE
    [] ch = BACKSLASH -> BACKSLASH
    [] ch = "b"       -> BS
    [] ch = "f"       -> "\f"
    [] ch = "n"       -> "\n"
    [] ch = "r"       -> "\r"
    [] ch = "t"       -> "\t"
    [] OTHER          -> NUL

\* the byte an escaped character stands for
Unescape(ch) ==
  CASE ch = QUOTE     -> QUOTE
    [] ch = BACKSLASH -> BACKSLASH
    [] ch = "b"       -> BS
    [] ch = "f"       -> "\f"
    [] ch = "n"       -> "\n"
    [] ch = "r"       -> "\r"
    [] ch = "t"       -> "\t"
    [] OTHER          -> ch

RECURSIVE StringLoop_escaped_first(_, _, _, _, _)
\* mutant of StringLoop: the escaped branch is tried before the control bytes
StringLoop_escaped_first(jd, b, v, l, escaped) ==
  With(_advance(_ensure_char(jd)), LAMBDA j1 :
    IF j1.c = EOF
      THEN [j |-> jsonr_error(j1), buf |-> b, val |-> v, len |-> l]
    ELSE IF j1.c = XFF
      THEN [j |-> [j1 EXCEPT !.overrun = 1], buf |-> b, val |-> v, len |-> l]
    ELSE IF j1.c = BACKSLASH
      THEN StringLoop_escaped_first(j1, b, v, l + 1, 1)
    ELSE IF /\ l >= JSONR_STRINGLEN_READ_BUFFER_SIZE
            /\ (escaped = 1 \/ j1.c \notin {BS, "\f", "\n", "\r", "\t", QUOTE})
      THEN [j |-> [j1 EXCEPT !.overrun = 1], buf |-> b, val |-> v, len |-> l]
    ELSE IF escaped = 1
      THEN With(BufWrite(b, l, Unescape(j1.c)), LAMBDA b1 :
             StringLoop_escaped_first(j1, b1, v, l + 1, 0))
    ELSE IF j1.c \in {BS, "\f", "\n", "\r", "\t"}
      THEN [j |-> jsonr_error(j1), buf |-> b, val |-> v, len |-> l]
    ELSE IF j1.c = QUOTE
      THEN [j |-> j1, buf |-> b, val |-> "buf", len |-> l]
    ELSE With(BufWrite(b, l, j1.c), LAMBDA b1 :
           StringLoop_escaped_first(j1, b1, v, l + 1, 0)))

RECURSIVE StringLoop(_, _, _, _, _)
\* the for(;;) of jsonr_read_stringlen.  At the end of the stream an unsigned
\* j->c holds 255 on every turn: no test of the loop matches, each turn
\* stores a byte and the loop leaves only by writing past the end of buf.
\* buf[*len] is stored without a test of *len: a store at an index that is
\* not below the capacity is a write past the end of buf.
StringLoop(jd, b, v, l, escaped) ==
  With(_advance(_ensure_char(jd)), LAMBDA j1 :
    IF j1.c \in {EOF, BS, "\f", "\n", "\r", "\t"}
      THEN [j |-> jsonr_error(j1), buf |-> b, val |-> v, len |-> l]
    ELSE IF j1.c = XFF
      THEN [j |-> [j1 EXCEPT !.overrun = 1], buf |-> b, val |-> v, len |-> l]
    ELSE IF j1.c = BACKSLASH
      THEN StringLoop(j1, b, v, l + 1, 1)
    ELSE IF l >= JSONR_STRINGLEN_READ_BUFFER_SIZE /\ (escaped = 1 \/ j1.c # QUOTE)
      THEN [j |-> [j1 EXCEPT !.overrun = 1], buf |-> b, val |-> v, len |-> l]
    ELSE IF escaped = 1
      THEN With(BufWrite(b, l, Unescape(j1.c)), LAMBDA b1 :
             StringLoop(j1, b1, v, l + 1, 0))
    ELSE IF j1.c = QUOTE
      THEN [j |-> j1, buf |-> b, val |-> "buf", len |-> l]
    ELSE With(BufWrite(b, l, j1.c), LAMBDA b1 :
           StringLoop(j1, b1, v, l + 1, 0)))

jsonr_read_stringlen(jd, b, v, l) ==
  IF jd.error = 1 THEN [j |-> jd, buf |-> b, val |-> v, len |-> l]
  ELSE With(_skip_whitespace(jd), LAMBDA j1 :
         IF j1.c # QUOTE
           THEN [j |-> jsonr_error(j1), buf |-> b, val |-> v, len |-> l]
           ELSE StringLoop(_advance(j1), b, v, 0, 0))

jsonr_v_stringlen(jd, b, v, l) ==
  With(jsonr_read_stringlen(jd, b, v, l), LAMBDA r :
    [r EXCEPT !.j = _comma(r.j)])

jsonr_k(jd, b, v, l) ==
  IF jd.error = 1 THEN [j |-> jd, buf |-> b, val |-> v, len |-> l]
  ELSE With(jsonr_read_stringlen(jd, b, v, l), LAMBDA r :
       With(_skip_whitespace(r.j), LAMBDA j1 :
         IF j1.c # ":" THEN [r EXCEPT !.j = jsonr_error(j1)]
         ELSE [r EXCEPT !.j = _advance(j1)]))

\* the string a (val, len) pair designates
StringAt(b, l) == SubSeq(Pad(b, l), 1, l)

\* has and has_len are locals, not initialised
jsonr_k_is_stringlen(jd, b, wants) ==
  With(jsonr_k(jd, b, "uninit", 0), LAMBDA r :
    [j |-> r.j, buf |-> r.buf,
     ret |-> IF r.j.error = 1 THEN 0
             ELSE With(StringAt(r.buf, r.len), LAMBDA has :
                    _str_are_equal(has, r.len, wants, Len(wants)))])

\* mutant of jsonr_k_is: the snapshot is not restored
jsonr_k_is_norestore(jd, b, key) == jsonr_k_is_stringlen(jd, b, key)

jsonr_k_is(jd, b, key) ==
  With(jsonr_peek_begin(jd), LAMBDA p :
  With(jsonr_k_is_stringlen(p.j, b, key), LAMBDA r :
    [r EXCEPT !.j = jsonr_peek_end(r.j, p.peek)]))

jsonr_k_eat(jd, b) ==
  With(jsonr_k(jd, b, "uninit", 0), LAMBDA r : [j |-> r.j, buf |-> r.buf])

jsonr_k_case(jd, b, key) ==
  With(jsonr_k_is(jd, b, key), LAMBDA r :
    IF r.ret # 0
      THEN With(jsonr_k_eat(r.j, r.buf), LAMBDA e :
             [j |-> e.j, buf |-> e.buf, ret |-> 1])
      ELSE [j |-> r.j, buf |-> r.buf, ret |-> 0])

-----------------------------------------------------------------------------
(* Values *)

JSONR_V_INVALID == 0
JSONR_V_NUMBER  == 1
JSONR_V_ARRAY   == 2
JSONR_V_TABLE   == 3
JSONR_V_STRING  == 4
JSONR_V_BOOL    == 5
JSONR_V_NULL    == 6

jsonr_v_get_type(jd) ==
  IF jd.error = 1 THEN [j |-> jd, ret |-> 0]
  ELSE With(_skip_whitespace(jd), LAMBDA j1 :
         [j |-> j1,
          ret |-> CASE j1.c = QUOTE  -> JSONR_V_STRING
                    [] isdigit(j1.c) -> JSONR_V_NUMBER
                    [] j1.c = "t"    -> JSONR_V_BOOL
                    [] j1.c = "f"    -> JSONR_V_BOOL
                    [] j1.c = "n"    -> JSONR_V_NULL
                    [] j1.c = "{"    -> JSONR_V_TABLE
                    [] j1.c = "["    -> JSONR_V_ARRAY
                    [] OTHER         -> JSONR_V_INVALID])

\* mutant of jsonr_v_number: column is not moved by the bytes fscanf read
jsonr_v_number_nocolumn(jd) ==
  IF jd.error = 1 THEN [j |-> jd, val |-> Zero]
  ELSE With(_skip_whitespace(jd), LAMBDA j1 :
       With(ungetc(j1.c, j1.f), LAMBDA u :
         IF u.ch # j1.c THEN [j |-> jsonr_error(j1), val |-> Zero]
         ELSE With(fscanf_lf(u.f), LAMBDA sc :
              With([j1 EXCEPT !.f = sc.f], LAMBDA j2 :
                IF sc.result = 1
                  THEN [j |-> _comma([j2 EXCEPT !.read = 1]), val |-> sc.val]
                  ELSE [j |-> jsonr_error(j2), val |-> Zero]))))

\* [j, val]: val is the double returned
jsonr_v_number(jd) ==
  IF jd.error = 1 THEN [j |-> jd, val |-> Zero]
  ELSE With(_skip_whitespace(jd), LAMBDA j1 :
       With(ftell(j1.f), LAMBDA tell_before :
       With(ungetc(j1.c, j1.f), LAMBDA u :
         IF u.ch # j1.c THEN [j |-> jsonr_error(j1), val |-> Zero]
         ELSE With(fscanf_lf(u.f), LAMBDA sc :
              With([j1 EXCEPT !.f = sc.f,
                              !.column = @ + (ftell(sc.f) - tell_before)],
                   LAMBDA j2 :
                IF sc.result = 1
                  THEN [j |-> _comma([j2 EXCEPT !.read = 1]), val |-> sc.val]
                  ELSE [j |-> jsonr_error(j2), val |-> Zero])))))

\* the chain "_advance(j); if(j->c != x) { jsonr_error(j); return 0; }" over
\* the bytes x of word, then "_comma(j); return ok".  _advance sets j->read
\* and fetches nothing, so every comparison of the chain sees the same j->c.
Literal(jd, word, ok) ==
  With(_advance(jd), LAMBDA j1 :
    IF \E i \in 1..Len(word) : j1.c # word[i]
      THEN [j |-> jsonr_error(j1), ret |-> 0]
      ELSE [j |-> _comma(j1), ret |-> ok])

jsonr_v_bool(jd) ==
  IF jd.error = 1 THEN [j |-> jd, ret |-> 0]
  ELSE With(_skip_whitespace(jd), LAMBDA j1 :
         IF j1.c = "t" THEN Literal(j1, <<"r", "u", "e">>, 1)
         ELSE IF j1.c = "f" THEN Literal(j1, <<"a", "l", "s", "e">>, 0)
         ELSE [j |-> jsonr_error(j1), ret |-> 0])

jsonr_v_null(jd) ==
  IF jd.error = 1 THEN [j |-> jd, ret |-> 0]
  ELSE With(_skip_whitespace(jd), LAMBDA j1 :
         IF j1.c = "n" THEN Literal(j1, <<"u", "l", "l">>, 1)
         ELSE [j |-> jsonr_error(j1), ret |-> 0])

RECURSIVE jsonr_v_skip(_, _)
RECURSIVE SkipArrayLoop(_, _)
RECURSIVE SkipTableLoop(_, _)

\* for(...; jsonr_v_array_can_read(j); ) { jsonr_v_skip(j); }
SkipArrayLoop(jd, b) ==
  With(jsonr_v_array_can_read(jd), LAMBDA t :
    IF t.ret # 0
      THEN With(jsonr_v_skip(t.j, b), LAMBDA r : SkipArrayLoop(r.j, r.buf))
      ELSE [j |-> t.j, buf |-> b])

\* for(...; jsonr_v_table_can_read(j); ) { jsonr_k_eat(j); jsonr_v_skip(j); }
SkipTableLoop(jd, b) ==
  With(jsonr_v_table_can_read(jd), LAMBDA t :
    IF t.ret # 0
      THEN With(jsonr_k_eat(t.j, b), LAMBDA e :
           With(jsonr_v_skip(e.j, e.buf), LAMBDA r :
             SkipTableLoop(r.j, r.buf)))
      ELSE [j |-> t.j, buf |-> b])

jsonr_v_skip(jd, b) ==
  IF jd.error = 1 THEN [j |-> jd, buf |-> b]
  ELSE With(jsonr_v_get_type(jd), LAMBDA t :
         CASE t.ret = JSONR_V_INVALID -> [j |-> jsonr_error(t.j), buf |-> b]
           [] t.ret = JSONR_V_NUMBER  -> [j |-> jsonr_v_number(t.j).j, buf |-> b]
           [] t.ret = JSONR_V_ARRAY   ->
                With(jsonr_v_array_begin(t.j), LAMBDA a :
                  SkipArrayLoop(a.j, b))
           [] t.ret = JSONR_V_TABLE   ->
                With(jsonr_v_table_begin(t.j), LAMBDA a :
                  SkipTableLoop(a.j, b))
           [] t.ret = JSONR_V_STRING  ->
                With(jsonr_v_stringlen(t.j, b, "uninit", 0), LAMBDA r :
                  [j |-> r.j, buf |-> r.buf])
           [] t.ret = JSONR_V_BOOL    -> [j |-> jsonr_v_bool(t.j).j, buf |-> b]
           [] t.ret = JSONR_V_NULL    -> [j |-> jsonr_v_null(t.j).j, buf |-> b])

\* mutant of jsonr_kv_skip: the key is not eaten
jsonr_kv_skip_nokey(jd, b) == jsonr_v_skip(jd, b)

jsonr_kv_skip(jd, b) ==
  With(jsonr_k_eat(jd, b), LAMBDA e : jsonr_v_skip(e.j, e.buf))

-----
(* Input documents *)

Str(s) == <<QUOTE>> \o s \o <<QUOTE>>

Member(k, v) == Str(k) \o <<":">> \o v

\* {"x":1}
DocX == <<"{">> \o Member(<<"x">>, <<"1">>) \o <<"}">>

\* [1,2]
DocArray == <<"[", "1", ",", "2", "]">>

\* {"a":"b<LF>c"} with a raw line feed inside the string
DocRawLF ==
  <<"{">> \o Member(<<"a">>, Str(<<"b", "\n", "c">>)) \o <<"}">>

\* ["a" ,1] with a blank before the comma
DocBlank == <<"[">> \o Str(<<"a">>) \o <<" ", ",", "1", "]">>

\* {"x  cut off inside the key
DocCut == <<"{", QUOTE, "x">>

\* [true]
DocTrue == <<"[", "t", "r", "u", "e", "]">>

\* a table written on three lines, the second one indented:
\* {<LF> "x":12,<LF>"y":"a"<LF>}
DocLines ==
  <<"{", "\n", " ">> \o Member(<<"x">>, <<"1", "2">>) \o <<",", "\n">>
    \o Member(<<"y">>, Str(<<"a">>)) \o <<"\n", "}">>

Docs == {DocX, DocArray, DocRawLF, DocBlank, DocCut, DocTrue, DocLines}

\* the key names a caller probes for
Keys == {<<"x">>, <<"y">>, <<"a">>}

NoProg == [body |-> "none", kind |-> "none", value |-> "none", wants |-> <<>>]
NoDoc  ==
  [form |-> "bytes", kind |-> "none", elems |-> <<>>, cut |-> 0, name |-> ""]

\* no second session, no encoder
NoOthers == <<>>
NoWriter == <<>>

-----------------------------------------------------------------------------
(* Spec: one session on one document; the caller calls the decoder's       *)
(* operations in any order.                                                *)

Init ==
  /\ \E d \in Docs, u \in PlainChar : j = Session(fopen(d), u)
  /\ buf = <<>>
  /\ val = "uninit"
  /\ len = 0
  /\ op = "jsonr_init"
  /\ arg = <<>>
  /\ ret = 0
  /\ num = Zero
  /\ pre = j
  /\ pc = "free"
  /\ prog = NoProg
  /\ ip = 0
  /\ trues = 0
  /\ got = <<>>
  /\ doc = NoDoc
  /\ others = NoOthers
  /\ jw = NoWriter

\* the caller's record of a call: which operation, on what state, its result.
\* No call follows one that overran the buffer.
Call(name, key, r) ==
  /\ j.overrun = 0
  /\ op' = name
  /\ arg' = key
  /\ ret' = r
  /\ pre' = j

\* a call of an operation int f(j)
CallInt(name, r) ==
  /\ Call(name, <<>>, r.ret)
  /\ j' = r.j
  /\ UNCHANGED <<buf, val, len, num>>

\* a call of an operation void f(j, &val, &len)
CallString(name, r) ==
  /\ Call(name, <<>>, 0)
  /\ j' = r.j
  /\ buf' = r.buf
  /\ val' = r.val
  /\ len' = r.len
  /\ UNCHANGED num

\* a call of an operation on keys or of a skip, which use locals for the string
CallKey(name, key, r, rv) ==
  /\ Call(name, key, rv)
  /\ j' = r.j
  /\ buf' = r.buf
  /\ UNCHANGED <<val, len, num>>

\* a call of jsonr_v_number
CallNumber(r) ==
  /\ Call("jsonr_v_number", <<>>, 0)
  /\ j' = r.j
  /\ num' = r.val
  /\ UNCHANGED <<buf, val, len>>

\* no loop is running
Idle == UNCHANGED <<pc, prog, ip, trues, got, doc, others, jw>>

TableBegin ==
  /\ \E r \in {jsonr_v_table_begin(j)} : CallInt("jsonr_v_table_begin", r)
  /\ Idle

TableCanRead ==
  /\ \E r \in {jsonr_v_table_can_read(j)} :
       CallInt("jsonr_v_table_can_read", r)
  /\ Idle

ArrayBegin ==
  /\ \E r \in {jsonr_v_array_begin(j)} : CallInt("jsonr_v_array_begin", r)
  /\ Idle

ArrayCanRead ==
  /\ \E r \in {jsonr_v_array_can_read(j)} :
       CallInt("jsonr_v_array_can_read", r)
  /\ Idle

VGetType ==
  /\ \E r \in {jsonr_v_get_type(j)} : CallInt("jsonr_v_get_type", r)
  /\ Idle

VBool ==
  /\ \E r \in {jsonr_v_bool(j)} : CallInt("jsonr_v_bool", r)
  /\ Idle

VNull ==
  /\ \E r \in {jsonr_v_null(j)} : CallInt("jsonr_v_null", r)
  /\ Idle

VNumber ==
  /\ \E r \in {jsonr_v_number(j)} : CallNumber(r)
  /\ Idle

ReadStringlen ==
  /\ \E r \in {jsonr_read_stringlen(j, buf, val, len)} :
       CallString("jsonr_read_stringlen", r)
  /\ Idle

VStringlen ==
  /\ \E r \in {jsonr_v_stringlen(j, buf, val, len)} :
       CallString("jsonr_v_stringlen", r)
  /\ Idle

K ==
  /\ \E r \in {jsonr_k(j, buf, val, len)} : CallString("jsonr_k", r)
  /\ Idle

KEat ==
  /\ \E r \in {jsonr_k_eat(j, buf)} : CallKey("jsonr_k_eat", <<>>, r, 0)
  /\ Idle

KIs ==
  /\ \E key \in Keys :
       \E r \in {jsonr_k_is(j, buf, key)} :
         CallKey("jsonr_k_is", key, r, r.ret)
  /\ Idle

KCase ==
  /\ \E key \in Keys :
       \E r \in {jsonr_k_case(j, buf, key)} :
         CallKey("jsonr_k_case", key, r, r.ret)
  /\ Idle

KvSkip ==
  /\ \E r \in {jsonr_kv_skip(j, buf)} : CallKey("jsonr_kv_skip", <<>>, r, 0)
  /\ Idle

VSkip ==
  /\ \E r \in {jsonr_v_skip(j, buf)} : CallKey("jsonr_v_skip", <<>>, r, 0)
  /\ Idle

Next ==
  \/ TableBegin \/ TableCanRead \/ ArrayBegin \/ ArrayCanRead
  \/ VGetType \/ VBool \/ VNull \/ VNumber
  \/ ReadStringlen \/ VStringlen \/ K \/ KEat \/ KIs \/ KCase
  \/ KvSkip \/ VSkip

Spec == Init /\ [][Next]_vars

-----------------------------------------------------------------------------
(* SpecLoop: the caller is a table or array loop of the shape the examples *)
(* and tests use,                                                          *)
(*   for(jsonr_v_table_begin(j); jsonr_v_table_can_read(j); ) { body }     *)
(* run on a generated document.                                            *)

MaxElems == 2      \* most elements of a generated table or array
MaxLoop  == 8      \* most iterations a loop is followed for

ElemKinds == {"num", "str", "nest"}

KeyNames == <<<<"a">>, <<"b">>, <<"c">>, <<"d">>>>

\* the i-th element of a container: the number i, the string "s", or the
\* nested array [7,{"k":8}]
ElemBytes(e, i) ==
  CASE e = "num"  -> <<Digits[i + 1]>>
    [] e = "str"  -> Str(<<"s">>)
    [] e = "nest" -> <<"[", "7", ",", "{">> \o Member(<<"k">>, <<"8">>)
                       \o <<"}", "]">>

ItemBytes(kind, e, i) ==
  IF kind = "table" THEN Member(KeyNames[i], ElemBytes(e, i))
  ELSE ElemBytes(e, i)

\* what stands between element i and element i + 1
SepBytes(form, i) ==
  CASE form = "spaced"           -> <<",", " ">>
    [] form = "blank"            -> <<" ", ",">>
    [] form = "missing" /\ i = 1 -> <<" ">>
    [] OTHER                     -> <<",">>

RECURSIVE ItemsFrom(_, _, _, _)
ItemsFrom(kind, elems, form, i) ==
  IF i > Len(elems) THEN <<>>
  ELSE ItemBytes(kind, elems[i], i)
         \o (IF i < Len(elems) THEN SepBytes(form, i) ELSE <<>>)
         \o ItemsFrom(kind, elems, form, i + 1)

FullBytes(kind, elems, form) ==
  (IF kind = "table" THEN <<"{">> ELSE <<"[">>)
    \o ItemsFrom(kind, elems, form, 1)
    \o (IF form = "trailing" THEN <<",">> ELSE <<>>)
    \o (IF kind = "table" THEN <<"}">> ELSE <<"]">>)

\* {"known":1,"unknown":{"nested":[1,2,3]},"trailing":2}
DocKnown ==
  <<"{">> \o Member(<<"k", "n", "o", "w", "n">>, <<"1">>) \o <<",">>
    \o Member(<<"u", "n", "k", "n", "o", "w", "n">>,
              <<"{">> \o Member(<<"n", "e", "s", "t", "e", "d">>,
                                <<"[", "1", ",", "2", ",", "3", "]">>)
                \o <<"}">>)
    \o <<",">>
    \o Member(<<"t", "r", "a", "i", "l", "i", "n", "g">>, <<"2">>) \o <<"}">>

\* {"key": "value",":}   (tests/unescaped3.cpp)
DocUnescaped3 ==
  <<"{">> \o Str(<<"k", "e", "y">>) \o <<":", " ">>
    \o Str(<<"v", "a", "l", "u", "e">>) \o <<",", QUOTE, ":", "}">>

\* { "te<LF>xt   (tests/unescaped2.cpp, shortened)
DocUnescaped2 == <<"{", " ", QUOTE, "t", "e", "\n", "x", "t">>

\* {"   (tests/unescaped.cpp)
DocUnescaped == <<"{", QUOTE>>

\* {"a":
DocNoValue == <<"{">> \o Str(<<"a">>) \o <<":">>

Samples ==
  [DocX |-> DocX, DocKnown |-> DocKnown, DocUnescaped3 |-> DocUnescaped3,
   DocUnescaped2 |-> DocUnescaped2, DocUnescaped |-> DocUnescaped,
   DocNoValue |-> DocNoValue]

ElemSeqs == UNION {[1..n -> ElemKinds] : n \in 0..MaxElems}

\* a generated document: form "ok" and "spaced" are well formed, "trailing"
\* has a comma before the close bracket, "missing" has a blank for its first
\* comma, "blank" has a blank before every comma, "cut" is the first cut
\* bytes of the "ok" document, "sample" is the named document of Samples
GenDocs ==
  {[kind |-> k, elems |-> es, form |-> f, cut |-> 0, name |-> ""] :
     k \in {"table", "array"}, es \in ElemSeqs, f \in {"ok", "spaced"}}
  \cup
  {[kind |-> k, elems |-> es, form |-> "trailing", cut |-> 0, name |-> ""] :
     k \in {"table", "array"}, es \in ElemSeqs \ {<<>>}}
  \cup
  {[kind |-> k, elems |-> es, form |-> "missing", cut |-> 0, name |-> ""] :
     k \in {"table", "array"}, es \in {x \in ElemSeqs : Len(x) >= 2}}
  \cup
  {[kind |-> k, elems |-> es, form |-> "blank", cut |-> 0, name |-> ""] :
     k \in {"table", "array"}, es \in {x \in ElemSeqs : Len(x) >= 2}}

CutDocs ==
  UNION {{[kind |-> k, elems |-> es, form |-> "cut", cut |-> n, name |-> ""] :
            n \in 1..(Len(FullBytes(k, es, "ok")) - 1)} :
         k \in {"table", "array"}, es \in ElemSeqs}

SampleDocs ==
  {[kind |-> "table", elems |-> <<>>, form |-> "sample", cut |-> 0,
    name |-> n] : n \in DOMAIN Samples}

LoopDocs == GenDocs \cup CutDocs \cup SampleDocs

Bytes(d) ==
  CASE d.form = "sample" -> Samples[d.name]
    [] d.form = "cut"    -> SubSeq(FullBytes(d.kind, d.elems, "ok"), 1, d.cut)
    [] OTHER             -> FullBytes(d.kind, d.elems, d.form)

\* the loops: body "case" probes the keys of wants in turn with jsonr_k_case,
\* reads the value of the one that matches and calls jsonr_kv_skip when none
\* does; body "k_value" reads the key with jsonr_k and then the value; body
\* "value" reads a value only.  value names the reader of the value.
Prog(kind, body, wants, value) ==
  [kind |-> kind, body |-> body, wants |-> wants, value |-> value]

Progs ==
  { Prog("table", "case", <<>>, "skip"),
    Prog("table", "case", <<<<"a">>>>, "number"),
    Prog("table", "case", <<<<"y">>, <<"x">>>>, "number"),
    Prog("table", "case",
         <<<<"k", "n", "o", "w", "n">>,
           <<"t", "r", "a", "i", "l", "i", "n", "g">>>>, "number"),
    Prog("table", "case", <<<<"k", "e", "y">>>>, "string"),
    Prog("table", "k_value", <<>>, "skip"),
    Prog("table", "k_value", <<>>, "number"),
    Prog("table", "value", <<>>, "string"),
    Prog("array", "value", <<>>, "skip"),
    Prog("array", "value", <<>>, "number"),
    Prog("array", "value", <<>>, "string") }

InitLoop ==
  /\ doc \in LoopDocs
  /\ prog \in Progs
  /\ \E u \in PlainChar : j = Session(fopen(Bytes(doc)), u)
  /\ buf = <<>>
  /\ val = "uninit"
  /\ len = 0
  /\ op = "jsonr_init"
  /\ arg = <<>>
  /\ ret = 0
  /\ num = Zero
  /\ pre = j
  /\ pc = "begin"
  /\ ip = 1
  /\ trues = 0
  /\ got = <<>>
  /\ others = NoOthers
  /\ jw = NoWriter

\* for(jsonr_v_table_begin(j); ...
LoopBegin ==
  /\ pc = "begin"
  /\ IF prog.kind = "table"
       THEN \E r \in {jsonr_v_table_begin(j)} :
              CallInt("jsonr_v_table_begin", r)
       ELSE \E r \in {jsonr_v_array_begin(j)} :
              CallInt("jsonr_v_array_begin", r)
  /\ pc' = "test"
  /\ UNCHANGED <<prog, ip, trues, got, doc, others, jw>>

\* ...; jsonr_v_table_can_read(j); )
LoopTest ==
  /\ pc = "test"
  /\ trues < MaxLoop
  /\ IF prog.kind = "table"
       THEN \E r \in {jsonr_v_table_can_read(j)} :
              CallInt("jsonr_v_table_can_read", r)
       ELSE \E r \in {jsonr_v_array_can_read(j)} :
              CallInt("jsonr_v_array_can_read", r)
  /\ pc' = IF ret' # 0 THEN "body" ELSE "done"
  /\ trues' = IF ret' # 0 THEN trues + 1 ELSE trues
  /\ ip' = 1
  /\ UNCHANGED <<prog, got, doc, others, jw>>

\* if(jsonr_k_case(j, wants[ip])) ... else if ...
LoopProbe ==
  /\ pc = "body" /\ prog.body = "case" /\ ip <= Len(prog.wants)
  /\ \E r \in {jsonr_k_case(j, buf, prog.wants[ip])} :
       CallKey("jsonr_k_case", prog.wants[ip], r, r.ret)
  /\ pc' = IF ret' # 0 THEN "value" ELSE "body"
  /\ ip' = IF ret' # 0 THEN ip ELSE ip + 1
  /\ UNCHANGED <<prog, trues, got, doc, others, jw>>

\* else { jsonr_kv_skip(j); }
LoopKvSkip ==
  /\ pc = "body" /\ prog.body = "case" /\ ip > Len(prog.wants)
  /\ \E r \in {jsonr_kv_skip(j, buf)} : CallKey("jsonr_kv_skip", <<>>, r, 0)
  /\ pc' = "test"
  /\ UNCHANGED <<prog, ip, trues, got, doc, others, jw>>

LoopKey ==
  /\ pc = "body" /\ prog.body = "k_value"
  /\ \E r \in {jsonr_k(j, buf, val, len)} : CallString("jsonr_k", r)
  /\ pc' = "value"
  /\ UNCHANGED <<prog, ip, trues, got, doc, others, jw>>

\* the key whose value the body is about to read
KeyRead ==
  CASE prog.body = "case"    -> prog.wants[ip]
    [] prog.body = "k_value" -> IF val = "buf" THEN StringAt(buf, len) ELSE <<>>
    [] OTHER                 -> <<>>

LoopValue ==
  /\ pc = "value" \/ (pc = "body" /\ prog.body = "value")
  /\ CASE prog.value = "number" ->
            /\ \E r \in {jsonr_v_number(j)} : CallNumber(r)
            /\ got' = Append(got, [key |-> KeyRead, num |-> num', str |-> <<>>])
       [] prog.value = "string" ->
            /\ \E r \in {jsonr_v_stringlen(j, buf, "uninit", 0)} :
                 CallString("jsonr_v_stringlen", r)
            /\ got' = Append(got, [key |-> KeyRead, num |-> Zero,
                                   str |-> IF val' = "buf"
                                             THEN StringAt(buf', len')
                                             ELSE <<>>])
       [] prog.value = "skip" ->
            /\ \E r \in {jsonr_v_skip(j, buf)} :
                 CallKey("jsonr_v_skip", <<>>, r, 0)
            /\ got' = got
  /\ pc' = "test"
  /\ UNCHANGED <<prog, ip, trues, doc, others, jw>>

NextLoop ==
  LoopBegin \/ LoopTest \/ LoopProbe \/ LoopKvSkip \/ LoopKey \/ LoopValue

SpecLoop == InitLoop /\ [][NextLoop]_vars

\* the caller runs on: its loop takes the next step whenever there is one
FairSpecLoop == SpecLoop /\ WF_vars(NextLoop)

-----------------------------------------------------------------------------
(* SpecString: one string read on a string literal: an opening quote and   *)
(* then every byte sequence up to MaxStrLen over the quote, the backslash, *)
(* the five raw control bytes, the letters that name an escape and an      *)
(* ordinary letter.                                                        *)

MaxStrLen == 3

ControlBytes == {BS, "\f", "\n", "\r", "\t"}

EscapeLetters == {"b", "f", "n", "r", "t"}

StrAlphabet == {QUOTE, BACKSLASH, "a"} \cup ControlBytes \cup EscapeLetters

\* literals about as long as the buffer: one byte shorter, as long, one and
\* two bytes longer; the two-letter escape adds a byte to the literal
LongBodies ==
  LET n == JSONR_STRINGLEN_READ_BUFFER_SIZE
  IN  {[i \in 1..m |-> "a"] \o <<QUOTE>> : m \in (n - 1)..(n + 2)}
        \cup {[i \in 1..m |-> "a"] \o <<BACKSLASH, "n", QUOTE>> :
                 m \in (n - 1)..n}

\* bytes that name no escape; the slash and the u are among them
OtherLetters == {"a", "x", "u", "/", "0"}

\* closed literals of ordinary bytes with one backslash before a byte that
\* names no escape
LenientBodies ==
  {pr \o <<BACKSLASH, x>> \o po \o <<QUOTE>> :
     pr \in {<<>>, <<"a">>}, x \in OtherLetters, po \in {<<>>, <<"a">>, <<"a", "a">>}}

StrBodies ==
  UNION {[1..n -> StrAlphabet] : n \in 0..MaxStrLen}
    \cup LongBodies \cup LenientBodies

InitString ==
  /\ \E body \in StrBodies, u \in PlainChar :
       j = Session(fopen(<<QUOTE>> \o body), u)
  /\ buf = <<>>
  /\ val = "uninit"
  /\ len = 0
  /\ op = "jsonr_init"
  /\ arg = <<>>
  /\ ret = 0
  /\ num = Zero
  /\ pre = j
  /\ pc = "string"
  /\ prog = NoProg
  /\ ip = 0
  /\ trues = 0
  /\ got = <<>>
  /\ doc = NoDoc
  /\ others = NoOthers
  /\ jw = NoWriter

\* the literal is read as a value by either string reader, or as a key
StringRead == op = "jsonr_init" /\ ReadStringlen

StringValue == op = "jsonr_init" /\ VStringlen

StringKey == op = "jsonr_init" /\ K

NextString == StringRead \/ StringValue \/ StringKey

SpecString == InitString /\ [][NextString]_vars

-----------------------------------------------------------------------------
(* SpecValue: one call of a value operation on a stream that holds blanks, *)
(* one token and what follows it.  The tokens are the three literals, the  *)
(* literals with one byte replaced or cut short, numbers with and without  *)
(* a leading sign or dot, the brackets, a string and bytes that start no   *)
(* value; the empty token with the empty tail is the exhausted stream.     *)

WordTrue  == <<"t", "r", "u", "e">>
WordFalse == <<"f", "a", "l", "s", "e">>
WordNull  == <<"n", "u", "l", "l">>

\* the bytes put in place of a byte of a literal
DevBytes == {"x", "e", "l"}

\* w with the byte at one index replaced, or cut short after its first bytes
Deviants(w) ==
  ({[w EXCEPT ![i] = b] : i \in 2..Len(w), b \in DevBytes}
     \cup {SubSeq(w, 1, n) : n \in 1..(Len(w) - 1)}) \ {w}

ValueNumbers ==
  {<<"1">>, <<"1", "2">>, <<"-", "1">>, <<"+", "1">>, <<".", "5">>}

ValueOthers ==
  {<<"{", "}">>, <<"[", "]">>, Str(<<"a">>), <<"x">>, <<"}">>, <<":">>, <<>>}

ValueWords ==
  {WordTrue, WordFalse, WordNull}
    \cup Deviants(WordTrue) \cup Deviants(WordFalse) \cup Deviants(WordNull)
    \cup ValueNumbers \cup ValueOthers

ValueLeads == {<<>>, <<" ">>, <<"\n", " ">>}

ValueTails == {<<>>, <<",">>, <<"]">>, <<",", "1">>, <<" ", ",">>}

InitValue ==
  /\ \E l \in ValueLeads, w \in ValueWords, t \in ValueTails, u \in PlainChar :
       j = Session(fopen(l \o w \o t), u)
  /\ buf = <<>>
  /\ val = "uninit"
  /\ len = 0
  /\ op = "jsonr_init"
  /\ arg = <<>>
  /\ ret = 0
  /\ num = Zero
  /\ pre = j
  /\ pc = "value"
  /\ prog = NoProg
  /\ ip = 0
  /\ trues = 0
  /\ got = <<>>
  /\ doc = NoDoc
  /\ others = NoOthers
  /\ jw = NoWriter

ValueType == op = "jsonr_init" /\ VGetType

ValueBool == op = "jsonr_init" /\ VBool

ValueNull == op = "jsonr_init" /\ VNull

ValueSkip == op = "jsonr_init" /\ VSkip

ValueTableBegin == op = "jsonr_init" /\ TableBegin

ValueArrayBegin == op = "jsonr_init" /\ ArrayBegin

NextValue ==
  \/ ValueType \/ ValueBool \/ ValueNull \/ ValueSkip
  \/ ValueTableBegin \/ ValueArrayBegin

SpecValue == InitValue /\ [][NextValue]_vars

-----------------------------------------------------------------------------
(* SpecTwo: two decode sessions of one process, each on a stream of its    *)
(* own, their calls interleaved in any order.  The first session is j,     *)
(* val, len and ret; the second is others.b.  buf is the one static buffer *)
(* of jsonr_read_stringlen, which both sessions' calls use.  others.a1 and *)
(* others.b1 run the same calls on the same streams alone, each with a     *)
(* buffer no other session writes.                                         *)

\* ["a","b"]
DocStrings == <<"[">> \o Str(<<"a">>) \o <<",">> \o Str(<<"b">>) \o <<"]">>

\* {"x":"c"}
DocMember == <<"{">> \o Member(<<"x">>, Str(<<"c">>)) \o <<"}">>

TwoDocs == {DocStrings, DocMember}

\* the calls a session makes: the operation and its key argument
TwoOps ==
  {[name |-> n, key |-> <<>>] :
     n \in {"jsonr_v_array_begin", "jsonr_v_table_begin",
            "jsonr_v_stringlen", "jsonr_k"}}
    \cup {[name |-> "jsonr_k_is", key |-> <<"x">>]}

\* a session and what its caller holds: the buffer its calls use, the out
\* parameters and the last return value
Sess(jd, b, v, l, r) == [j |-> jd, buf |-> b, val |-> v, len |-> l, ret |-> r]

\* the session s after the call o
Apply(o, s) ==
  CASE o.name = "jsonr_v_array_begin" ->
         With(jsonr_v_array_begin(s.j), LAMBDA r :
           [s EXCEPT !.j = r.j, !.ret = r.ret])
    [] o.name = "jsonr_v_table_begin" ->
         With(jsonr_v_table_begin(s.j), LAMBDA r :
           [s EXCEPT !.j = r.j, !.ret = r.ret])
    [] o.name = "jsonr_v_stringlen" ->
         With(jsonr_v_stringlen(s.j, s.buf, s.val, s.len), LAMBDA r :
           Sess(r.j, r.buf, r.val, r.len, 0))
    [] o.name = "jsonr_k" ->
         With(jsonr_k(s.j, s.buf, s.val, s.len), LAMBDA r :
           Sess(r.j, r.buf, r.val, r.len, 0))
    [] o.name = "jsonr_k_is" ->
         With(jsonr_k_is(s.j, s.buf, o.key), LAMBDA r :
           [s EXCEPT !.j = r.j, !.buf = r.buf, !.ret = r.ret])

InitTwo ==
  /\ \E d1 \in TwoDocs, d2 \in TwoDocs, u \in PlainChar :
       /\ j = Session(fopen(d1), u)
       /\ others =
            [b  |-> Sess(Session(fopen(d2), u), <<>>, "uninit", 0, 0),
             a1 |-> Sess(Session(fopen(d1), u), <<>>, "uninit", 0, 0),
             b1 |-> Sess(Session(fopen(d2), u), <<>>, "uninit", 0, 0)]
  /\ buf = <<>>
  /\ val = "uninit"
  /\ len = 0
  /\ op = "jsonr_init"
  /\ arg = <<>>
  /\ ret = 0
  /\ num = Zero
  /\ pre = j
  /\ pc = "two"
  /\ prog = NoProg
  /\ ip = 0
  /\ trues = 0
  /\ got = <<>>
  /\ doc = NoDoc
  /\ jw = NoWriter

\* neither session has written past the buffer
TwoRunning == j.overrun = 0 /\ others.b.j.overrun = 0

\* the first session makes a call
TwoFirst ==
  /\ TwoRunning
  /\ \E o \in TwoOps :
       /\ \E r \in {Apply(o, Sess(j, buf, val, len, ret))} :
            /\ j' = r.j
            /\ buf' = r.buf
            /\ val' = r.val
            /\ len' = r.len
            /\ ret' = r.ret
       /\ \E a \in {Apply(o, others.a1)} : others' = [others EXCEPT !.a1 = a]
       /\ op' = o.name
       /\ arg' = o.key
  /\ pre' = j
  /\ UNCHANGED <<num, pc, prog, ip, trues, got, doc, jw>>

\* the second session makes a call: it uses the same static buffer
TwoSecond ==
  /\ TwoRunning
  /\ \E o \in TwoOps :
       /\ \E r \in {Apply(o, [others.b EXCEPT !.buf = buf])},
             a \in {Apply(o, others.b1)} :
            /\ buf' = r.buf
            /\ others' = [others EXCEPT !.b = r, !.b1 = a]
       /\ op' = o.name
       /\ arg' = o.key
  /\ pre' = others.b.j
  /\ UNCHANGED <<j, val, len, ret, num, pc, prog, ip, trues, got, doc, jw>>

NextTwo == TwoFirst \/ TwoSecond

SpecTwo == InitTwo /\ [][NextTwo]_vars

-----------------------------------------------------------------------------
(* The encoder (json-write.h).  The FILE of a JSON_Write_Data is the       *)
(* sequence of bytes written so far.  aborted is 1 once an assert of the   *)
(* encoder has failed: assert (with NDEBUG not defined, as the tests build *)
(* it) ends the process, so nothing after it in the call is executed.      *)

fputc(ch, f) == Append(f, ch)

jsonw_init(f) == [f |-> f, table_stack |-> 0, array_stack |-> 0, do_comma |-> 0]

\* an encoder jsonw_init has set up, in a process that runs
Writer(f) == jsonw_init(f) @@ [aborted |-> 0]

\* mutant of jsonw_maybe_comma: the flag stays set
jsonw_maybe_comma_keeps(json) ==
  IF json.do_comma # 0 THEN [json EXCEPT !.f = fputc(",", @)] ELSE json

jsonw_maybe_comma(json) ==
  IF json.do_comma # 0
    THEN [json EXCEPT !.f = fputc(",", @), !.do_comma = 0]
    ELSE json

\* ESCAPE_LUT[ch]: 0, or the index into ESCAPE_STR counted from 1
ESCAPE_LUT(ch) ==
  CASE ch = QUOTE     -> 1
    [] ch = BACKSLASH -> 2
    [] ch = BS        -> 3
    [] ch = "\f"      -> 4
    [] ch = "\n"      -> 5
    [] ch = "\r"      -> 6
    [] ch = "\t"      -> 7
    [] OTHER          -> 0

ESCAPE_STR ==
  << <<BACKSLASH, QUOTE>>, <<BACKSLASH, BACKSLASH>>, <<BACKSLASH, "b">>,
     <<BACKSLASH, "f">>, <<BACKSLASH, "n">>, <<BACKSLASH, "r">>,
     <<BACKSLASH, "t">> >>

RECURSIVE jsonw_escaped_string_norun(_, _)
\* mutant of jsonw_escaped_string: the bytes before an escape are not written
jsonw_escaped_string_norun(json, str) ==
  With({i \in 1..Len(str) : ESCAPE_LUT(str[i]) # 0}, LAMBDA hits :
    IF hits = {}
      THEN [json EXCEPT !.f = @ \o str]
      ELSE With(CHOOSE i \in hits : \A k \in hits : i <= k, LAMBDA char_it :
             jsonw_escaped_string_norun(
               [json EXCEPT !.f = @ \o ESCAPE_STR[ESCAPE_LUT(str[char_it])]],
               SubSeq(str, char_it + 1, Len(str)))))

RECURSIVE jsonw_escaped_string(_, _)
\* the search loop: the bytes before the first byte that has an escape are
\* written as they are, then the escape, then the search starts again after
\* that byte; str is the bytes str[0 .. length-1]
jsonw_escaped_string(json, str) ==
  With({i \in 1..Len(str) : ESCAPE_LUT(str[i]) # 0}, LAMBDA hits :
    IF hits = {}
      THEN [json EXCEPT !.f = @ \o str]
      ELSE With(CHOOSE i \in hits : \A k \in hits : i <= k, LAMBDA char_it :
             jsonw_escaped_string(
               [json EXCEPT !.f = @ \o SubSeq(str, 1, char_it - 1)
                                    \o ESCAPE_STR[ESCAPE_LUT(str[char_it])]],
               SubSeq(str, char_it + 1, Len(str)))))

\* mutant of jsonw_klen: the colon after the key is not written
jsonw_klen_nocolon(json, str) ==
  With(jsonw_maybe_comma(json), LAMBDA j1 :
  With(jsonw_escaped_string([j1 EXCEPT !.f = fputc(QUOTE, @)], str), LAMBDA j2 :
    [j2 EXCEPT !.f = fputc(QUOTE, @)]))

jsonw_klen(json, str) ==
  With(jsonw_maybe_comma(json), LAMBDA j1 :
  With(jsonw_escaped_string([j1 EXCEPT !.f = fputc(QUOTE, @)], str), LAMBDA j2 :
    [j2 EXCEPT !.f = fputc(":", fputc(QUOTE, @))]))

jsonw_v_table_begin(json) ==
  With(jsonw_maybe_comma(json), LAMBDA j1 :
    [j1 EXCEPT !.table_stack = @ + 1, !.f = fputc("{", @)])

\* mutant of jsonw_v_table_end: the counter is not tested
jsonw_v_table_end_unchecked(json) ==
  [json EXCEPT !.table_stack = @ - 1, !.f = fputc("}", @), !.do_comma = 1]

jsonw_v_table_end(json) ==
  IF json.table_stack <= 0
    THEN [json EXCEPT !.aborted = 1]
    ELSE [json EXCEPT !.table_stack = @ - 1, !.f = fputc("}", @),
                      !.do_comma = 1]

\* mutant of jsonw_v_array_begin: the counter is not raised
jsonw_v_array_begin_nocount(json) ==
  With(jsonw_maybe_comma(json), LAMBDA j1 : [j1 EXCEPT !.f = fputc("[", @)])

jsonw_v_array_begin(json) ==
  With(jsonw_maybe_comma(json), LAMBDA j1 :
    [j1 EXCEPT !.array_stack = @ + 1, !.f = fputc("[", @)])

jsonw_v_array_end(json) ==
  IF json.array_stack <= 0
    THEN [json EXCEPT !.aborted = 1]
    ELSE [json EXCEPT !.array_stack = @ - 1, !.f = fputc("]", @),
                      !.do_comma = 1]

RECURSIVE DecimalOf(_)
\* the digits printf writes for a number that is not negative
DecimalOf(n) ==
  IF n < 10
    THEN <<Digits[n + 1]>>
    ELSE Append(DecimalOf(n \div 10), Digits[(n % 10) + 1])

\* fprintf(json->f, "%lld", val)
jsonw_v_int(json, v) ==
  With(jsonw_maybe_comma(json), LAMBDA j1 :
    [j1 EXCEPT !.f = @ \o (IF v < 0 THEN <<"-">> \o DecimalOf(0 - v)
                                    ELSE DecimalOf(v)),
               !.do_comma = 1])

jsonw_v_bool(json, v) ==
  With(jsonw_maybe_comma(json), LAMBDA j1 :
    [j1 EXCEPT !.f = @ \o (IF v = 0 THEN WordFalse ELSE WordTrue),
               !.do_comma = 1])

jsonw_v_stringlen(json, v) ==
  With(jsonw_maybe_comma(json), LAMBDA j1 :
  With(jsonw_escaped_string([j1 EXCEPT !.f = fputc(QUOTE, @)], v), LAMBDA j2 :
    [j2 EXCEPT !.f = fputc(QUOTE, @), !.do_comma = 1]))

jsonw_kv_int(json, key, v) == jsonw_v_int(jsonw_klen(json, key), v)

-----------------------------------------------------------------------------
(* SpecWrite: any sequence of encoder calls after jsonw_init, followed     *)
(* while the output is shorter than MaxOut bytes.  op is the call made     *)
(* last and pre the JSON_Write_Data as it was when that call was made.     *)

MaxOut == 7      \* a call is made only while fewer bytes are written

InitWrite ==
  /\ jw = Writer(<<>>)
  /\ pre = jw
  /\ op = "jsonw_init"
  /\ arg = <<>>
  /\ j = jsonr_init(fopen(<<>>))
  /\ buf = <<>>
  /\ val = "uninit"
  /\ len = 0
  /\ ret = 0
  /\ num = Zero
  /\ pc = "write"
  /\ prog = NoProg
  /\ ip = 0
  /\ trues = 0
  /\ got = <<>>
  /\ doc = NoDoc
  /\ others = NoOthers

\* the caller's record of an encoder call; no call follows a failed assert
WCall(name, a, r) ==
  /\ jw.aborted = 0
  /\ Len(jw.f) < MaxOut
  /\ jw' = r
  /\ op' = name
  /\ arg' = a
  /\ pre' = jw
  /\ UNCHANGED <<j, buf, val, len, ret, num, pc, prog, ip, trues, got, doc,
                 others>>

WTableBegin ==
  \E r \in {jsonw_v_table_begin(jw)} : WCall("jsonw_v_table_begin", <<>>, r)

WTableEnd ==
  \E r \in {jsonw_v_table_end(jw)} : WCall("jsonw_v_table_end", <<>>, r)

WArrayBegin ==
  \E r \in {jsonw_v_array_begin(jw)} : WCall("jsonw_v_array_begin", <<>>, r)

WArrayEnd ==
  \E r \in {jsonw_v_array_end(jw)} : WCall("jsonw_v_array_end", <<>>, r)

WKey == \E r \in {jsonw_klen(jw, <<"k">>)} : WCall("jsonw_klen", <<"k">>, r)

WInt == \E r \in {jsonw_v_int(jw, 1)} : WCall("jsonw_v_int", <<>>, r)

WBool == \E r \in {jsonw_v_bool(jw, 1)} : WCall("jsonw_v_bool", <<>>, r)

WString ==
  \E r \in {jsonw_v_stringlen(jw, <<"a">>)} :
    WCall("jsonw_v_stringlen", <<"a">>, r)

WKvInt ==
  \E r \in {jsonw_kv_int(jw, <<"k">>, 1)} : WCall("jsonw_kv_int", <<"k">>, r)

NextWrite ==
  \/ WTableBegin \/ WTableEnd \/ WArrayBegin \/ WArrayEnd
  \/ WKey \/ WInt \/ WBool \/ WString \/ WKvInt

SpecWrite == InitWrite /\ [][NextWrite]_vars

-----------------------------------------------------------------------------
(* SpecRound: a value tree is written with the encoder and the bytes it    *)
(* produced are read back with the decoder.  A tree is a record            *)
(* [t, s, n, kids, keys]: t names the kind, s is the bytes of a string, n  *)
(* an integer or a boolean, kids the elements of an array or the values of *)
(* a table, keys the keys of a table.  doc is the tree written, jw the     *)
(* encoder, j the decoder and got the tree read.                           *)

TStr(s) == [t |-> "string", s |-> s, n |-> 0, kids |-> <<>>, keys |-> <<>>]
TInt(n) == [t |-> "number", s |-> <<>>, n |-> n, kids |-> <<>>, keys |-> <<>>]
TBool(n) == [t |-> "bool", s |-> <<>>, n |-> n, kids |-> <<>>, keys |-> <<>>]
TNull == [t |-> "null", s |-> <<>>, n |-> 0, kids |-> <<>>, keys |-> <<>>]
TInvalid == [t |-> "invalid", s |-> <<>>, n |-> 0, kids |-> <<>>, keys |-> <<>>]
TArr(kids) == [t |-> "array", s |-> <<>>, n |-> 0, kids |-> kids, keys |-> <<>>]
TTab(keys, kids) ==
  [t |-> "table", s |-> <<>>, n |-> 0, kids |-> kids, keys |-> keys]

RECURSIVE WriteTree(_, _)
RECURSIVE WriteKids(_, _, _)

\* the elements of an array, or the keys and values of a table, from the
\* i-th on
WriteKids(json, tr, i) ==
  IF i > Len(tr.kids) THEN json
  ELSE IF tr.t = "table"
    THEN WriteKids(WriteTree(jsonw_klen(json, tr.keys[i]), tr.kids[i]), tr, i + 1)
    ELSE WriteKids(WriteTree(json, tr.kids[i]), tr, i + 1)

\* the encoder calls that write a tree
WriteTree(json, tr) ==
  CASE tr.t = "string" -> jsonw_v_stringlen(json, tr.s)
    [] tr.t = "number" -> jsonw_v_int(json, tr.n)
    [] tr.t = "bool"   -> jsonw_v_bool(json, tr.n)
    [] tr.t = "array"  ->
         jsonw_v_array_end(WriteKids(jsonw_v_array_begin(json), tr, 1))
    [] tr.t = "table"  ->
         jsonw_v_table_end(WriteKids(jsonw_v_table_begin(json), tr, 1))

RECURSIVE Pow10(_)
Pow10(n) == IF n = 0 THEN 1 ELSE 10 * Pow10(n - 1)

\* (long) of the double jsonr_v_number returned; a number that begins with
\* a digit is finite
IntOf(d) ==
  IF d.e >= 0 THEN d.m * Pow10(d.e)
  ELSE IF d.m >= 0 THEN d.m \div Pow10(0 - d.e)
  ELSE 0 - ((0 - d.m) \div Pow10(0 - d.e))

\* the caller's copy of the string a read left in (val, len); val is looked
\* at only when the read did not fail
Copied(r) == IF r.j.error = 0 /\ r.val = "buf" THEN StringAt(r.buf, r.len) ELSE <<>>

RECURSIVE ReadTree(_, _)
RECURSIVE ReadArrayLoop(_, _, _)
RECURSIVE ReadTableLoop(_, _, _, _)

\* for(...; jsonr_v_array_can_read(j); ) { read a value }
ReadArrayLoop(jd, b, kids) ==
  With(jsonr_v_array_can_read(jd), LAMBDA t :
    IF t.ret # 0
      THEN With(ReadTree(t.j, b), LAMBDA r :
             ReadArrayLoop(r.j, r.buf, Append(kids, r.tree)))
      ELSE [j |-> t.j, buf |-> b, tree |-> TArr(kids)])

\* for(...; jsonr_v_table_can_read(j); ) { jsonr_k(j, &key, &len); read a value }
ReadTableLoop(jd, b, keys, kids) ==
  With(jsonr_v_table_can_read(jd), LAMBDA t :
    IF t.ret # 0
      THEN With(jsonr_k(t.j, b, "uninit", 0), LAMBDA k :
           With(ReadTree(k.j, k.buf), LAMBDA r :
             ReadTableLoop(r.j, r.buf, Append(keys, Copied(k)),
                           Append(kids, r.tree))))
      ELSE [j |-> t.j, buf |-> b, tree |-> TTab(keys, kids)])

\* the decoder calls that read the value under the cursor, whatever it is:
\* the switch of jsonr_v_skip, with the values kept
ReadTree(jd, b) ==
  IF jd.error = 1 THEN [j |-> jd, buf |-> b, tree |-> TInvalid]
  ELSE With(jsonr_v_get_type(jd), LAMBDA t :
         CASE t.ret = JSONR_V_INVALID ->
                [j |-> jsonr_error(t.j), buf |-> b, tree |-> TInvalid]
           [] t.ret = JSONR_V_NUMBER  ->
                With(jsonr_v_number(t.j), LAMBDA r :
                  [j |-> r.j, buf |-> b, tree |-> TInt(IntOf(r.val))])
           [] t.ret = JSONR_V_ARRAY   ->
                With(jsonr_v_array_begin(t.j), LAMBDA a :
                  ReadArrayLoop(a.j, b, <<>>))
           [] t.ret = JSONR_V_TABLE   ->
                With(jsonr_v_table_begin(t.j), LAMBDA a :
                  ReadTableLoop(a.j, b, <<>>, <<>>))
           [] t.ret = JSONR_V_STRING  ->
                With(jsonr_v_stringlen(t.j, b, "uninit", 0), LAMBDA r :
                  [j |-> r.j, buf |-> r.buf, tree |-> TStr(Copied(r))])
           [] t.ret = JSONR_V_BOOL    ->
                With(jsonr_v_bool(t.j), LAMBDA r :
                  [j |-> r.j, buf |-> b, tree |-> TBool(r.ret)])
           [] t.ret = JSONR_V_NULL    ->
                With(jsonr_v_null(t.j), LAMBDA r :
                  [j |-> r.j, buf |-> b, tree |-> TNull]))

MaxTreeStr == 2  \* strings of the trees have at most this many bytes

\* an ordinary printable byte and the seven bytes ESCAPE_LUT has an escape for
TreeBytes == {"a", QUOTE, BACKSLASH, BS, "\f", "\n", "\r", "\t"}

TreeStrings == UNION {[1..n -> TreeBytes] : n \in 0..MaxTreeStr}

TreeInts == {0, 7, 12, 0 - 3}

Leaves ==
  {TStr(s) : s \in TreeStrings} \cup {TInt(n) : n \in TreeInts}
    \cup {TBool(n) : n \in {0, 1}}

\* the leaves put inside arrays and tables
Inner == {TStr(<<"a">>), TStr(<<"\n">>), TInt(7), TBool(1)}

Flat ==
  {TArr(k) : k \in UNION {[1..n -> Inner] : n \in 0..2}}
    \cup {TTab(<<>>, <<>>)}
    \cup {TTab(<<<<"k">>>>, <<x>>) : x \in Inner}
    \cup {TTab(<<<<"k">>, <<"a", QUOTE>>>>, <<x, y>>) : x, y \in {TStr(<<"a">>), TInt(7)}}
    \cup {TTab(<<<<"k">>, <<"a">>>>, <<x, y>>) : x, y \in {TStr(<<"a">>), TInt(7)}}

Nested ==
  {TArr(<<x, TInt(7)>>) : x \in Flat} \cup {TTab(<<<<"k">>>>, <<x>>) : x \in Flat}

Trees == Leaves \cup Flat \cup Nested

InitRound ==
  /\ doc \in Trees
  /\ jw = Writer(<<>>)
  /\ pre = jw
  /\ op = "tree"
  /\ arg = <<>>
  /\ j = jsonr_init(fopen(<<>>))
  /\ buf = <<>>
  /\ val = "uninit"
  /\ len = 0
  /\ ret = 0
  /\ num = Zero
  /\ pc = "round"
  /\ prog = NoProg
  /\ ip = 0
  /\ trues = 0
  /\ got = <<>>
  /\ others = NoOthers

\* jsonw_init on an empty file, then the calls that write the tree
RoundEncode ==
  /\ pc = "round"
  /\ op = "tree"
  /\ \E r \in {WriteTree(jw, doc)} : jw' = r
  /\ op' = "encode"
  /\ UNCHANGED <<j, buf, val, len, arg, ret, num, pre, pc, prog, ip, trues,
                 got, doc, others>>

\* jsonr_init on the bytes written, then the calls that read one value
RoundDecode ==
  /\ pc = "round"
  /\ op = "encode"
  /\ jw.aborted = 0
  /\ \E u \in PlainChar :
       \E r \in {ReadTree(Session(fopen(jw.f), u), buf)} :
         /\ j' = r.j
         /\ buf' = r.buf
         /\ got' = r.tree
  /\ op' = "decode"
  /\ UNCHANGED <<val, len, arg, ret, num, pre, pc, prog, ip, trues, doc,
                 others, jw>>

\* jsonr_init on the bytes written, then jsonr_v_skip
RoundSkip ==
  /\ pc = "round"
  /\ op = "encode"
  /\ jw.aborted = 0
  /\ \E u \in PlainChar :
       \E r \in {jsonr_v_skip(Session(fopen(jw.f), u), buf)} :
         /\ j' = r.j
         /\ buf' = r.buf
  /\ op' = "skip"
  /\ UNCHANGED <<val, len, arg, ret, num, pre, pc, prog, ip, trues, doc,
                 others, jw, got>>

NextRound == RoundEncode \/ RoundDecode \/ RoundSkip

SpecRound == InitRound /\ [][NextRound]_vars

-----------------------------------------------------------------------------
(* SpecEscape: jsonw_escaped_string is called once, on a fresh encoder,    *)
(* with a string of ordinary and escapable bytes.  arg is the string.      *)

MaxEscLen == 3    \* strings given to jsonw_escaped_string have at most this many bytes

\* two ordinary bytes and the seven bytes ESCAPE_LUT has an escape for
EscapeBytes == TreeBytes \cup {"b"}

InitEscape ==
  /\ arg \in UNION {[1..n -> EscapeBytes] : n \in 0..MaxEscLen}
  /\ jw = Writer(<<>>)
  /\ pre = jw
  /\ op = "jsonw_init"
  /\ j = jsonr_init(fopen(<<>>))
  /\ buf = <<>>
  /\ val = "uninit"
  /\ len = 0
  /\ ret = 0
  /\ num = Zero
  /\ pc = "escape"
  /\ prog = NoProg
  /\ ip = 0
  /\ trues = 0
  /\ got = <<>>
  /\ doc = NoDoc
  /\ others = NoOthers

EscapedString ==
  /\ pc = "escape"
  /\ op = "jsonw_init"
  /\ \E r \in {jsonw_escaped_string(jw, arg)} : jw' = r
  /\ op' = "jsonw_escaped_string"
  /\ pre' = jw
  /\ UNCHANGED <<j, buf, val, len, arg, ret, num, pc, prog, ip, trues, got,
                 doc, others>>

NextEscape == EscapedString

SpecEscape == InitEscape /\ [][NextEscape]_vars

-----------------------------------------------------------------------------
(* SpecCursor: the two steps of the lazy lookahead, _ensure_char and       *)
(* _advance, taken in any order on a short stream.  got is the bytes the   *)
(* stream has delivered, in the order it delivered them; pre is the cursor *)
(* before the last step.                                                   *)

MaxCursorLen == 3   \* the stream has at most this many bytes

CursorDocs == UNION {[1..n -> {"a", "b", "\n"}] : n \in 0..MaxCursorLen}

InitCursor ==
  /\ \E d \in CursorDocs, u \in PlainChar : j = Session(fopen(d), u)
  /\ buf = <<>>
  /\ val = "uninit"
  /\ len = 0
  /\ op = "jsonr_init"
  /\ arg = <<>>
  /\ ret = 0
  /\ num = Zero
  /\ pre = j
  /\ pc = "cursor"
  /\ prog = NoProg
  /\ ip = 0
  /\ trues = 0
  /\ got = <<>>
  /\ doc = NoDoc
  /\ others = NoOthers
  /\ jw = NoWriter

\* a step of the cursor; column counts the fetches at the end of the stream
\* too, so the steps are followed until it has passed the end by two
CursorStep(name, r) ==
  /\ pc = "cursor"
  /\ j.column < Len(j.f.data) + 2
  /\ j' = r
  /\ op' = name
  /\ pre' = j
  /\ got' = got \o SubSeq(j.f.data, ftell(j.f) + 1, ftell(r.f))
  /\ UNCHANGED <<buf, val, len, arg, ret, num, pc, prog, ip, trues, doc,
                 others, jw>>

EnsureChar == \E r \in {_ensure_char(j)} : CursorStep("_ensure_char", r)

Advance == \E r \in {_advance(j)} : CursorStep("_advance", r)

NextCursor == EnsureChar \/ Advance

SpecCursor == InitCursor /\ [][NextCursor]_vars

-----------------------------------------------------------------------------
(* SpecSeek: one session on a stream that does not tell its position or    *)
(* does not seek; the caller calls the decoder's operations in any order.  *)

SeekDocs == {DocX, DocLines, DocCut}

InitSeek ==
  /\ \E d \in SeekDocs, s \in {"notell", "noseek"}, u \in PlainChar :
       j = Session(Unseekable(d, s), u)
  /\ buf = <<>>
  /\ val = "uninit"
  /\ len = 0
  /\ op = "jsonr_init"
  /\ arg = <<>>
  /\ ret = 0
  /\ num = Zero
  /\ pre = j
  /\ pc = "seek"
  /\ prog = NoProg
  /\ ip = 0
  /\ trues = 0
  /\ got = <<>>
  /\ doc = NoDoc
  /\ others = NoOthers
  /\ jw = NoWriter

SpecSeek == InitSeek /\ [][Next]_vars

-----------------------------------------------------------------------------
(* The claims *)

\* what a call may not touch when it is a no-op: the current char, the
\* pending-read flag, line, column and the stream position
Cursor(jd) == <<jd.c, jd.read, jd.line, jd.column, ftell(jd.f)>>

C1Ops ==
  {"jsonr_v_table_begin", "jsonr_v_table_can_read", "jsonr_v_array_begin",
   "jsonr_v_array_can_read", "jsonr_k", "jsonr_k_case", "jsonr_kv_skip",
   "jsonr_v_skip", "jsonr_v_get_type", "jsonr_v_number", "jsonr_v_bool",
   "jsonr_v_null", "jsonr_v_stringlen"}

\* C1: once the error flag is set, every call of a decoder operation returns
\* 0 and leaves the current char, the pending-read flag, line, column and
\* the stream position unchanged.
C1_NoOpAfterError ==
  (op \in C1Ops /\ pre.error = 1) =>
    /\ ret = 0
    /\ op = "jsonr_v_number" => num = Zero
    /\ j.error = 1
    /\ Cursor(j) = Cursor(pre)

\* the document and the loop fit: the loop is of the document's kind and
\* its body reads every element the document holds
ReaderFits ==
  \/ prog.value = "skip"
  \/ prog.value = "number" /\ \A i \in DOMAIN doc.elems : doc.elems[i] = "num"
  \/ prog.value = "string" /\ \A i \in DOMAIN doc.elems : doc.elems[i] = "str"

Fits ==
  /\ doc.form # "sample"
  /\ prog.kind = doc.kind
  /\ \/ prog.body = "case" /\ prog.wants = <<>>
     \/ prog.body = "case" /\ prog.wants = <<<<"a">>>>
          /\ prog.value = "number"
          /\ (doc.elems # <<>> => doc.elems[1] = "num")
     \/ prog.body = "k_value" /\ ReaderFits
     \/ prog.body = "value" /\ prog.kind = "array" /\ ReaderFits

\* C2: a table or array whose last element is followed by a comma and then
\* the close bracket is rejected: its decode ends with the error flag set.
C2_TrailingCommaRejected ==
  (doc.form = "trailing" /\ Fits /\ pc = "done") => j.error = 1

\* C3: a table or array in which two elements are separated by whitespace
\* and no comma is rejected: its decode ends with the error flag set.
C3_MissingCommaRejected ==
  (doc.form = "missing" /\ Fits /\ pc = "done") => j.error = 1

\* C4: a table or array whose elements are separated by exactly one comma
\* (the empty one included) decodes with the error flag clear, the loop
\* predicate having returned true once per element and then false.
C4_WellFormedAccepted ==
  (doc.form \in {"ok", "spaced"} /\ Fits /\ pc = "done") =>
    /\ j.error = 0
    /\ trues = Len(doc.elems)
    /\ op \in {"jsonr_v_table_can_read", "jsonr_v_array_can_read"}
    /\ ret = 0

C4_Witness ==
  /\ doc.form = "ok" /\ Fits /\ pc = "done"
  /\ doc.elems = <<"num", "nest">>
  /\ trues = 2 /\ j.error = 0

\* the key jsonr_k reads under the cursor of jd: whether it is well formed
\* (a string and a colon) and its bytes
KeyUnder(jd) ==
  With(jsonr_k(jd, <<>>, "uninit", 0), LAMBDA r :
    [ok |-> r.j.error = 0,
     key |-> IF r.j.error = 0 THEN StringAt(r.buf, r.len) ELSE <<>>,
     j |-> r.j])

\* C5: a key probe (jsonr_k_case, jsonr_k_is) on a well-formed key that
\* differs from the probed name returns 0 and leaves the current char, the
\* pending-read flag, line, column and stream position as they were.
C5_FailedProbeConsumesNothing ==
  (/\ op \in {"jsonr_k_case", "jsonr_k_is"}
   /\ pre.error = 0
   /\ KeyUnder(pre).ok
   /\ KeyUnder(pre).key # arg) =>
    (ret = 0 /\ j.error = 0 /\ Cursor(j) = Cursor(pre))

C5_Witness ==
  /\ op = "jsonr_k_case" /\ arg = <<"y">> /\ ret = 0
  /\ pre.error = 0 /\ KeyUnder(pre).ok /\ KeyUnder(pre).key = <<"x">>
  /\ Cursor(j) = Cursor(pre) /\ ftell(j.f) = 2

\* the loop of the backtracking example: the value of "y", else of "x"
ProgXY == Prog("table", "case", <<<<"y">>, <<"x">>>>, "number")

OnDocX == doc.form = "sample" /\ doc.name = "DocX" /\ prog = ProgXY

\* C6: on {"x":1}, after the table is begun and can_read is true, the probe
\* for "y" returns 0 and the probe for "x" returns 1 with the cursor just
\* past the colon, and jsonr_v_number then returns 1 with no error.  In any
\* loop a probe of a well-formed key returns 1 exactly when its name is the
\* key, however many probes failed before it, and a key that reaches
\* jsonr_kv_skip is none of the probed names.
C6_KeyBacktracking ==
  /\ (OnDocX /\ pc = "body" /\ ip = 2) =>
       (op = "jsonr_k_case" /\ arg = <<"y">> /\ ret = 0 /\ j.error = 0)
  /\ (OnDocX /\ pc = "value") =>
       /\ op = "jsonr_k_case" /\ arg = <<"x">> /\ ret = 1 /\ ip = 2
       /\ j.error = 0 /\ j.c = ":" /\ j.read = 1 /\ ftell(j.f) = 5
  /\ (OnDocX /\ op = "jsonr_v_number") =>
       (num = Double(1, 0) /\ j.error = 0)
  /\ (OnDocX /\ pc = "done") =>
       /\ got = <<[key |-> <<"x">>, num |-> Double(1, 0), str |-> <<>>]>>
       /\ j.error = 0
  /\ (op = "jsonr_k_case" /\ pre.error = 0 /\ KeyUnder(pre).ok) =>
       /\ ret = IF KeyUnder(pre).key = arg THEN 1 ELSE 0
       /\ ret = 1 => (j = KeyUnder(pre).j /\ j.c = ":" /\ j.read = 1)
  /\ (op = "jsonr_kv_skip" /\ pre.error = 0 /\ KeyUnder(pre).ok) =>
       \A i \in DOMAIN prog.wants : prog.wants[i] # KeyUnder(pre).key

C6_Witness ==
  /\ OnDocX /\ pc = "done" /\ trues = 1 /\ j.error = 0
  /\ got = <<[key |-> <<"x">>, num |-> Double(1, 0), str |-> <<>>]>>

Known == <<"k", "n", "o", "w", "n">>

Trailing == <<"t", "r", "a", "i", "l", "i", "n", "g">>

\* the loop of examples/read.cpp: known keys are read, the others skipped
ProgKnown == Prog("table", "case", <<Known, Trailing>>, "number")

OnDocKnown == doc.form = "sample" /\ doc.name = "DocKnown" /\ prog = ProgKnown

\* {"known":1,
KnownHead == <<"{">> \o Member(Known, <<"1">>) \o <<",">>

\* "unknown":{"nested":[1,2,3]}
UnknownMember ==
  Member(<<"u", "n", "k", "n", "o", "w", "n">>,
         <<"{">> \o Member(<<"n", "e", "s", "t", "e", "d">>,
                           <<"[", "1", ",", "2", ",", "3", "]">>)
           \o <<"}">>)

\* the bytes of the stream the cursor is past: a byte fetched and not yet
\* consumed (read = 0) is still ahead
Consumed(jd) == ftell(jd.f) - (IF jd.read = 0 THEN 1 ELSE 0)

\* the bytes of a generated document up to and including its n-th element
\* and the comma after it
UpTo(d, n) ==
  Len(FullBytes(d.kind, SubSeq(d.elems, 1, n), "ok")) - 1
    + (IF 0 < n /\ n < Len(d.elems) THEN 1 ELSE 0)

\* C7: on {"known":1,"unknown":{"nested":[1,2,3]},"trailing":2} the loop
\* that reads known and trailing and skips every other key ends with
\* known = 1 and trailing = 2 captured and the error flag clear;
\* jsonr_kv_skip consumes exactly the key, its whole value and the comma
\* after it.
C7_UnknownKeyTolerance ==
  /\ (OnDocKnown /\ pc = "done") =>
       /\ j.error = 0
       /\ trues = 3
       /\ got = <<[key |-> Known, num |-> Double(1, 0), str |-> <<>>],
                  [key |-> Trailing, num |-> Double(2, 0), str |-> <<>>]>>
  /\ (OnDocKnown /\ op = "jsonr_kv_skip") =>
       /\ Consumed(pre) = Len(KnownHead)
       /\ Consumed(j) = Len(KnownHead) + Len(UnknownMember) + 1
       /\ j.c = "," /\ j.read = 1 /\ j.error = 0
  /\ (doc.form = "ok" /\ doc.kind = "table" /\ prog.kind = "table"
        /\ prog.body = "case" /\ prog.wants = <<>>
        /\ op = "jsonr_kv_skip") =>
       /\ Consumed(pre) = UpTo(doc, trues - 1)
       /\ Consumed(j) = UpTo(doc, trues)
       /\ j.error = 0

C7_Witness ==
  /\ OnDocKnown /\ pc = "done" /\ j.error = 0 /\ Len(got) = 2
  /\ got[1].num = Double(1, 0) /\ got[2].num = Double(2, 0)

\* the documents that end inside an unclosed table, array, key or string
Truncated ==
  \/ doc.form = "cut"
  \/ doc.form = "sample"
       /\ doc.name \in {"DocUnescaped", "DocUnescaped2", "DocUnescaped3",
                        "DocNoValue"}

\* C8: on an input that ends inside an unclosed table, array, key or
\* string, every loop that reads or skips each key/value ends after
\* finitely many steps with the error flag set.
C8_TruncatedFails == Truncated ~> (pc = "done" /\ j.error = 1)

RECURSIVE LiteralEnd(_, _, _)
\* the index of the quote that closes the literal s scanned from i on: the
\* first quote not escaped by a backslash; 0 when there is none
LiteralEnd(s, i, esc) ==
  IF i > Len(s) THEN 0
  ELSE IF esc THEN LiteralEnd(s, i + 1, FALSE)
  ELSE IF s[i] = BACKSLASH THEN LiteralEnd(s, i + 1, TRUE)
  ELSE IF s[i] = QUOTE THEN i
  ELSE LiteralEnd(s, i + 1, FALSE)

\* a raw control byte stands between the quotes of the literal s
HasRawControl(s) ==
  /\ LiteralEnd(s, 2, FALSE) # 0
  /\ \E i \in 2..(LiteralEnd(s, 2, FALSE) - 1) : s[i] \in ControlBytes

\* C9: a string literal with a raw control byte (0x08, 0x0C, 0x0A, 0x0D,
\* 0x09) between its quotes, directly after a backslash included, makes the
\* string read set the error flag and return no string.
C9_RawControlByteIsError ==
  (op # "jsonr_init" /\ HasRawControl(j.f.data)) =>
    (j.error = 1 /\ val = "uninit")

C9_Witness ==
  /\ op = "jsonr_read_stringlen"
  /\ j.f.data = <<QUOTE, BACKSLASH, "\n", QUOTE>>
  /\ j.error = 1 /\ val = "uninit"

\* the byte the escape sequence backslash ch stands for
EscapeOf(ch) ==
  CASE ch = "b" -> BS
    [] ch = "f" -> "\f"
    [] ch = "n" -> "\n"
    [] ch = "r" -> "\r"
    [] ch = "t" -> "\t"
    [] OTHER    -> ch

RECURSIVE WellEscaped(_, _, _)
\* s[i..e-1] is made of ordinary bytes and the seven escape sequences
WellEscaped(s, i, e) ==
  IF i >= e THEN TRUE
  ELSE IF s[i] = BACKSLASH
    THEN /\ i + 1 < e
         /\ s[i + 1] \in {QUOTE, BACKSLASH} \cup EscapeLetters
         /\ WellEscaped(s, i + 2, e)
  ELSE s[i] \notin ControlBytes \cup {QUOTE} /\ WellEscaped(s, i + 1, e)

RECURSIVE Decoded(_, _, _)
\* one byte per ordinary byte and one per escape sequence of s[i..e-1]
Decoded(s, i, e) ==
  IF i >= e THEN <<>>
  ELSE IF s[i] = BACKSLASH
    THEN <<EscapeOf(s[i + 1])>> \o Decoded(s, i + 2, e)
  ELSE <<s[i]>> \o Decoded(s, i + 1, e)

\* C10: for every string literal made of ordinary bytes and the seven
\* escape sequences, jsonr_read_stringlen succeeds, stops at the first
\* unescaped quote and returns one byte per ordinary byte and one byte per
\* escape sequence, in order, the length being that count.
C10_EscapeDecoding ==
  (/\ op = "jsonr_read_stringlen"
   /\ LiteralEnd(j.f.data, 2, FALSE) # 0
   /\ WellEscaped(j.f.data, 2, LiteralEnd(j.f.data, 2, FALSE))) =>
    /\ j.error = 0
    /\ val = "buf"
    /\ ftell(j.f) = LiteralEnd(j.f.data, 2, FALSE)
    /\ len = Len(Decoded(j.f.data, 2, LiteralEnd(j.f.data, 2, FALSE)))
    /\ StringAt(buf, len) = Decoded(j.f.data, 2, LiteralEnd(j.f.data, 2, FALSE))

\* the stream of the call holds blanks, then the token w, then a tail
ValueIs(w) ==
  \E l \in ValueLeads, t \in ValueTails : pre.f.data = l \o w \o t

\* the bytes of the stream that a session has moved past: the byte it looks
\* at (read = 0) is not among them
Eaten(jd) ==
  ftell(jd.f) - (IF jd.read = 0 /\ jd.c \notin {EOF, XFF} THEN 1 ELSE 0)

\* the bytes a reader of the literal w has to move past: the blanks, the
\* literal and a comma that follows it directly
ThroughLiteral(w) ==
  LET d == pre.f.data
      e == SpaceEnd(d, 1) + Len(w)
  IN  (e - 1) + (IF e <= Len(d) /\ d[e] = "," THEN 1 ELSE 0)

\* C12: with true under the cursor jsonr_v_bool returns 1 with no error,
\* with false it returns 0 with no error, with null jsonr_v_null returns 1
\* with no error, each consuming the whole literal and a directly following
\* comma; on a token that deviates from the literal the error flag is set.
C12_LiteralReaders ==
  /\ (op = "jsonr_v_bool" /\ ValueIs(WordTrue)) =>
       (ret = 1 /\ j.error = 0 /\ Eaten(j) = ThroughLiteral(WordTrue))
  /\ (op = "jsonr_v_bool" /\ ValueIs(WordFalse)) =>
       (ret = 0 /\ j.error = 0 /\ Eaten(j) = ThroughLiteral(WordFalse))
  /\ (op = "jsonr_v_null" /\ ValueIs(WordNull)) =>
       (ret = 1 /\ j.error = 0 /\ Eaten(j) = ThroughLiteral(WordNull))
  /\ (op = "jsonr_v_bool"
        /\ \E w \in Deviants(WordTrue) \cup Deviants(WordFalse) : ValueIs(w))
       => (ret = 0 /\ j.error = 1)
  /\ (op = "jsonr_v_null" /\ \E w \in Deviants(WordNull) : ValueIs(w))
       => (ret = 0 /\ j.error = 1)

\* the first byte of the stream of the call that is no blank; EOF when there
\* is none
FirstByte ==
  LET d == pre.f.data
      i == SpaceEnd(d, 1)
  IN  IF i <= Len(d) THEN d[i] ELSE EOF

\* the type the leading byte b of a value stands for
TypeOf(b) ==
  CASE b = QUOTE                            -> JSONR_V_STRING
    [] isdigit(b) \/ b \in {"-", "+", "."}  -> JSONR_V_NUMBER
    [] b = "{"                              -> JSONR_V_TABLE
    [] b = "["                              -> JSONR_V_ARRAY
    [] b \in {"t", "f"}                     -> JSONR_V_BOOL
    [] b = "n"                              -> JSONR_V_NULL
    [] OTHER                                -> JSONR_V_INVALID

\* C13: jsonr_v_get_type classifies the value from its first non-blank byte:
\* a quote gives string, a digit, '-', '+' or '.' gives number, '{' table,
\* '[' array, 't' or 'f' boolean, 'n' null, anything else and the end of the
\* stream invalid; and jsonr_v_skip skips a number that starts with '-',
\* '+' or '.' without error.
C13_TypeFromLeadingByte ==
  /\ op = "jsonr_v_get_type" => (ret = TypeOf(FirstByte) /\ j.error = 0)
  /\ (op = "jsonr_v_skip" /\ FirstByte \in {"-", "+", "."}
        /\ \E w \in ValueNumbers : ValueIs(w))
       => j.error = 0

\* C14: jsonr_v_table_begin (jsonr_v_array_begin) on a stream whose first
\* non-blank byte is '{' ('[') consumes the bracket and returns 1; on any
\* other byte and on the exhausted stream it sets the error flag and
\* returns 0.
C14_BeginNeedsBracket ==
  /\ op = "jsonr_v_table_begin" =>
       IF FirstByte = "{"
         THEN ret = 1 /\ j.error = 0 /\ Eaten(j) = SpaceEnd(pre.f.data, 1)
         ELSE ret = 0 /\ j.error = 1
  /\ op = "jsonr_v_array_begin" =>
       IF FirstByte = "["
         THEN ret = 1 /\ j.error = 0 /\ Eaten(j) = SpaceEnd(pre.f.data, 1)
         ELSE ret = 0 /\ j.error = 1

\* C20: the error flag of a session is monotonic: once it is 1 it is 1 after
\* every further decoder call, key probes that restore a snapshot included.
C20_ErrorIsMonotonic == [][j.error = 1 => j'.error = 1]_vars

\* a key probe was made on a session whose error flag was set
C20_Witness ==
  /\ op \in {"jsonr_k_is", "jsonr_k_case"}
  /\ pre.error = 1
  /\ j.error = 1

\* the operations that read a string literal through jsonr_read_stringlen
StringOps == {"jsonr_read_stringlen", "jsonr_v_stringlen", "jsonr_k"}

\* the stream of the call is a whole literal of ordinary bytes that decodes
\* to more bytes than the buffer holds
LongLiteral ==
  \E m \in 1..2 :
    pre.f.data =
      Str([i \in 1..(JSONR_STRINGLEN_READ_BUFFER_SIZE + m) |-> "a"])

\* C15: the bounded string read writes only at indices below
\* JSONR_STRINGLEN_READ_BUFFER_SIZE and returns a length not above it; a
\* literal that decodes to more bytes is still scanned up to its closing
\* quote, without error, and the excess bytes are discarded.
C15_ReadStaysInBuffer ==
  op \in StringOps =>
    /\ j.overrun = 0
    /\ Len(buf) <= JSONR_STRINGLEN_READ_BUFFER_SIZE
    /\ (op # "jsonr_k" /\ j.error = 0) =>
         len <= JSONR_STRINGLEN_READ_BUFFER_SIZE
    /\ LongLiteral =>
         /\ j.error = 0
         /\ Eaten(j) = Len(pre.f.data)
         /\ op # "jsonr_k" =>
              StringAt(buf, len) =
                [i \in 1..JSONR_STRINGLEN_READ_BUFFER_SIZE |-> "a"]

\* what a session shows its caller: the last return value, the error flag
\* and the bytes the caller's pointer and length designate
View(s) ==
  [ret |-> s.ret, error |-> s.j.error,
   str |-> IF s.val = "buf" THEN StringAt(s.buf, s.len) ELSE <<>>]

\* C16: two sessions over two streams, their calls interleaved in any
\* order, each show their caller the same return values, the same string
\* contents and the same error flag as when they run alone.
C16_SessionsIndependent ==
  /\ View(Sess(j, buf, val, len, ret)) = View(others.a1)
  /\ View([others.b EXCEPT !.buf = buf]) = View(others.b1)

\* C17: jsonw_v_table_end called while table_stack is 0, and
\* jsonw_v_array_end called while array_stack is 0, fail the assertion: no
\* close bracket is written and the counter is not decremented.
C17_EndWithoutOpenIsFatal ==
  /\ (op = "jsonw_v_table_end" /\ pre.table_stack = 0) =>
       /\ jw.aborted = 1
       /\ jw.f = pre.f
       /\ jw.table_stack = 0
  /\ (op = "jsonw_v_array_end" /\ pre.array_stack = 0) =>
       /\ jw.aborted = 1
       /\ jw.f = pre.f
       /\ jw.array_stack = 0

\* jsonw_v_array_end was called while only a table was open
C17_Witness ==
  /\ op = "jsonw_v_array_end"
  /\ pre.array_stack = 0
  /\ pre.table_stack > 0
  /\ jw.aborted = 1

\* the closing bracket of an opening one
Closes(b) == IF b = "{" THEN "}" ELSE "]"

RECURSIVE OpenAfter(_, _, _)
\* the brackets still open after the bytes out[i..], innermost last, when st
\* are those open before; <<"bad">> when a close bracket does not close the
\* innermost open one.  The strings the calls of SpecWrite write hold no
\* bracket.
OpenAfter(out, i, st) ==
  IF i > Len(out) THEN st
  ELSE IF out[i] \in {"{", "["} THEN OpenAfter(out, i + 1, Append(st, out[i]))
  ELSE IF out[i] \in {"}", "]"}
    THEN IF st # <<>> /\ Closes(st[Len(st)]) = out[i]
           THEN OpenAfter(out, i + 1, SubSeq(st, 1, Len(st) - 1))
           ELSE <<"bad">>
  ELSE OpenAfter(out, i + 1, st)

\* the innermost container still open in the output out
Innermost(out) ==
  LET st == OpenAfter(out, 1, <<>>)
  IN  IF st = <<>> THEN "none" ELSE st[Len(st)]

\* C18: an end call whose kind differs from the innermost still-open
\* container, at any depth, is detected as the fatal error; so the brackets
\* written by a call sequence that meets no fatal assertion are properly
\* nested.
C18_NestingOrderEnforced ==
  /\ (op = "jsonw_v_array_end" /\ Innermost(pre.f) = "{") => jw.aborted = 1
  /\ (op = "jsonw_v_table_end" /\ Innermost(pre.f) = "[") => jw.aborted = 1
  /\ jw.aborted = 0 => OpenAfter(jw.f, 1, <<>>) # <<"bad">>

\* the calls that write a key, a value or an open bracket
CommaCalls ==
  {"jsonw_klen", "jsonw_v_table_begin", "jsonw_v_array_begin", "jsonw_v_int",
   "jsonw_v_bool", "jsonw_v_stringlen", "jsonw_kv_int"}

\* the calls after which a comma is due: the value writes and the end calls
ValueOrEnd ==
  {"jsonw_v_int", "jsonw_v_bool", "jsonw_v_stringlen", "jsonw_kv_int",
   "jsonw_v_table_end", "jsonw_v_array_end"}

\* how many commas the bytes s hold
Commas(s) == Cardinality({i \in 1..Len(s) : s[i] = ","})

\* the output has a comma at i that stands directly after '{', '[', ':' or
\* a comma, or directly before '}' or ']'
MisplacedComma(out) ==
  \E i \in 1..Len(out) :
    /\ out[i] = ","
    /\ \/ i > 1 /\ out[i - 1] \in {"{", "[", ":", ","}
       \/ i < Len(out) /\ out[i + 1] \in {"}", "]"}

\* C19: a key, value or begin call writes exactly one comma, before its
\* token, if the call before it was a value write or an end call, and no
\* comma otherwise; the output never has a comma directly after '{', '[',
\* ':' or a comma, nor directly before '}' or ']'.
C19_CommaPlacement ==
  /\ [][op' \in CommaCalls =>
          LET new == SubSeq(jw'.f, Len(jw.f) + 1, Len(jw'.f))
          IN  IF op \in ValueOrEnd
                THEN new[1] = "," /\ Commas(new) = 1
                ELSE Commas(new) = 0]_vars
  /\ [](~MisplacedComma(jw.f))

\* an integer was written straight after a value or an end call: a comma
\* stands before it
C19_Witness ==
  /\ op = "jsonw_v_int"
  /\ pre.do_comma = 1
  /\ Len(jw.f) >= 2
  /\ SubSeq(jw.f, Len(jw.f) - 1, Len(jw.f)) = <<",", "1">>

\* C11: a tree of strings, integers, booleans and nested tables and arrays
\* that was written with the encoder is read back from the written bytes as
\* the same tree, without error; for a tree that is one string, the string
\* read returns the bytes written, with the same length
C11_RoundTrip ==
  (pc = "round" /\ op = "decode") =>
    /\ j.error = 0
    /\ j.overrun = 0
    /\ got = doc

\* C21: a table or array in which whitespace stands between a value and the
\* comma that follows it decodes with the error flag clear, the loop
\* predicate having returned true once per element and then false, as the
\* same document without that whitespace does.
C21_BlankBeforeCommaAccepted ==
  (doc.form = "blank" /\ Fits /\ pc = "done") =>
    /\ j.error = 0
    /\ trues = Len(doc.elems)

\* the letter that follows the backslash in the escape sequence of ch
LetterOf(ch) ==
  CASE ch = BS   -> "b"
    [] ch = "\f" -> "f"
    [] ch = "\n" -> "n"
    [] ch = "\r" -> "r"
    [] ch = "\t" -> "t"
    [] OTHER     -> ch

RECURSIVE EscapedBytes(_, _)
\* the escape sequence of each escapable byte and each other byte itself,
\* in the order of the bytes of s from the i-th on
EscapedBytes(s, i) ==
  IF i > Len(s) THEN <<>>
  ELSE (IF s[i] \in {QUOTE, BACKSLASH, BS, "\f", "\n", "\r", "\t"}
          THEN <<BACKSLASH, LetterOf(s[i])>>
          ELSE <<s[i]>>)
       \o EscapedBytes(s, i + 1)

\* C25: jsonw_escaped_string appends to the output, for the bytes of its
\* input in order, the two-character escape sequence of an escapable byte
\* and the byte itself otherwise: nothing is dropped, duplicated or
\* reordered, and the encoder's counters and comma flag are left alone.
C25_EscapedStringIsBytewise ==
  op = "jsonw_escaped_string" =>
    /\ jw.f = pre.f \o EscapedBytes(arg, 1)
    /\ [jw EXCEPT !.f = pre.f] = pre

\* an escapable byte stood first, two stood side by side, and one stood last
C25_Witness ==
  /\ op = "jsonw_escaped_string"
  /\ arg = <<QUOTE, "\n", BACKSLASH>>
  /\ jw.f = <<BACKSLASH, QUOTE, BACKSLASH, "n", BACKSLASH, BACKSLASH>>

\* the number of bytes b in the output
Count(out, b) == Cardinality({i \in 1..Len(out) : out[i] = b})

\* C28: while no assertion of the encoder has failed, table_stack and
\* array_stack are not negative; each begin call adds one to its counter,
\* each end call takes one from its counter, and no other call changes
\* them, so that each counter is the number of begin calls less the number
\* of end calls of its kind since jsonw_init (the open and close brackets
\* written), and is 0 exactly when as many were closed as were opened.
C28_DepthCounters ==
  /\ [][jw'.aborted = 0 =>
          /\ jw'.table_stack = jw.table_stack
               + (IF op' = "jsonw_v_table_begin" THEN 1
                  ELSE IF op' = "jsonw_v_table_end" THEN 0 - 1 ELSE 0)
          /\ jw'.array_stack = jw.array_stack
               + (IF op' = "jsonw_v_array_begin" THEN 1
                  ELSE IF op' = "jsonw_v_array_end" THEN 0 - 1 ELSE 0)]_vars
  /\ [](jw.aborted = 0 =>
          /\ jw.table_stack >= 0
          /\ jw.array_stack >= 0
          /\ jw.table_stack = Count(jw.f, "{") - Count(jw.f, "}")
          /\ jw.array_stack = Count(jw.f, "[") - Count(jw.f, "]"))

\* an array and two tables inside it were opened and all were closed
C28_Witness ==
  /\ jw.aborted = 0
  /\ op = "jsonw_v_array_end"
  /\ jw.f = <<"[", "{", "}", ",", "{", "}", "]">>
  /\ jw.table_stack = 0
  /\ jw.array_stack = 0

\* the literal read is m ordinary bytes, a backslash, the byte x, n ordinary
\* bytes and the closing quote
LenientLiteral(m, x, n) ==
  j.f.data = <<QUOTE>> \o [i \in 1..m |-> "a"] \o <<BACKSLASH, x>>
               \o [i \in 1..n |-> "a"] \o <<QUOTE>>

\* C23: a backslash before a byte that is none of " \ b f n r t (nor a raw
\* control byte, nor the end of the stream) is no error: the string read
\* goes on to the closing quote and returns a string in which that byte
\* stands as itself, after the bytes that preceded the backslash and before
\* the bytes that followed it.
C23_LenientUnknownEscape ==
  \A m \in 0..1, n \in 0..2, x \in OtherLetters :
    (op \in {"jsonr_read_stringlen", "jsonr_v_stringlen"}
       /\ LenientLiteral(m, x, n)) =>
      /\ j.error = 0
      /\ j.overrun = 0
      /\ val = "buf"
      /\ len >= m + 1 + n
      /\ SubSeq(StringAt(buf, len), 1, m) = [i \in 1..m |-> "a"]
      /\ StringAt(buf, len)[len - n] = x
      /\ SubSeq(StringAt(buf, len), len - n + 1, len) = [i \in 1..n |-> "a"]

C23_Witness ==
  /\ op = "jsonr_v_stringlen"
  /\ LenientLiteral(1, "/", 2)
  /\ j.error = 0
  /\ val = "buf"
  /\ StringAt(buf, len)[len - 2] = "/"

\* the session record holds a diagnostic message and its length
HasMessage(jd) == {"error_msg", "error_msg_length"} \subseteq DOMAIN jd

\* C24: a session whose error flag is set holds one diagnostic message,
\* written when the flag went from 0 to 1, and no later call changes the
\* message or its length.
C24_FirstErrorWins ==
  /\ [](j.error = 1 => HasMessage(j))
  /\ [][(j.error = 1 /\ HasMessage(j) /\ HasMessage(j')) =>
          (j'.error_msg = j.error_msg
             /\ j'.error_msg_length = j.error_msg_length)]_vars

\* C26: _ensure_char takes one byte from the stream only when the
\* pending-read flag is set, makes it the current char and clears the flag,
\* and does nothing when the flag is clear; _advance only sets the flag:
\* the stream and the current char stay as they were.  So the current char
\* after a fetch is the next byte of the stream, and the bytes delivered
\* are the stream's bytes in order, each once.
C26_LazyLookahead ==
  /\ [][op' = "_ensure_char" =>
          IF j.read = 1
            THEN /\ j'.read = 0
                 /\ IF ftell(j.f) < Len(j.f.data)
                      THEN /\ ftell(j'.f) = ftell(j.f) + 1
                           /\ j'.c = j.f.data[ftell(j.f) + 1]
                      ELSE /\ ftell(j'.f) = ftell(j.f)
                           /\ j'.c \in {EOF, XFF}
            ELSE j' = j]_vars
  /\ [][op' = "_advance" =>
          /\ j'.read = 1
          /\ j'.c = j.c
          /\ j'.f = j.f]_vars
  /\ [](pc = "cursor" =>
          /\ Len(got) = ftell(j.f)
          /\ got = SubSeq(j.f.data, 1, Len(got))
          /\ (j.read = 0 /\ j.c \notin {EOF, XFF}) => j.c = got[Len(got)])

\* _ensure_char was called twice with no _advance in between, after two
\* bytes had been fetched: the second call read nothing
C26_Witness ==
  /\ pc = "cursor"
  /\ op = "_ensure_char"
  /\ pre.read = 0
  /\ j = pre
  /\ Len(got) = 2

\* the number of bytes of the stream the cursor has passed: the bytes
\* fetched, less the current char while it is still to be consumed
Passed(jd) ==
  IF jd.read = 0 /\ jd.c \notin {EOF, XFF} /\ ftell(jd.f) > 0
    THEN ftell(jd.f) - 1
    ELSE ftell(jd.f)

\* the places of the line feeds among the bytes passed
LineFeeds(jd) == {i \in 1..Passed(jd) : jd.f.data[i] = "\n"}

\* the place of the last of them, 0 when there is none
LastLineFeed(jd) ==
  IF LineFeeds(jd) = {} THEN 0
  ELSE CHOOSE i \in LineFeeds(jd) : \A k \in LineFeeds(jd) : k <= i

\* C27: in every state of a session whose error flag is clear, line is 1
\* plus the number of line feeds consumed and column is the number of bytes
\* fetched since the last consumed line feed, whatever operations were
\* called, number reads and key probes included.
C27_PositionBookkeeping ==
  (pc = "free" /\ j.error = 0 /\ j.overrun = 0) =>
    /\ j.line = 1 + Cardinality(LineFeeds(j))
    /\ j.column = ftell(j.f) - LastLineFeed(j)

\* C27 as amended: the same, with column counting fetches: the bytes
\* fetched since the last consumed line feed, and one more once a fetch has
\* met the end of the stream.
C27_PositionCountsEndFetch ==
  (pc = "free" /\ j.error = 0 /\ j.overrun = 0) =>
    /\ j.line = 1 + Cardinality(LineFeeds(j))
    /\ j.column = ftell(j.f) - LastLineFeed(j)
                    + (IF j.c \in {EOF, XFF} THEN 1 ELSE 0)

\* on the second line of the table, after the number 12 was read and a
\* probe for a key that is not under the cursor restored its snapshot
C27_Witness ==
  /\ pc = "free" /\ j.error = 0
  /\ j.f.data = DocLines
  /\ op = "jsonr_k_case" /\ arg = <<"x">> /\ ret = 0 /\ pre.error = 0
  /\ j.line = 2 /\ j.column = 8 /\ ftell(j.f) = 10

\* C22: on a stream whose position cannot be queried (ftell returns -1 in
\* jsonr_peek_begin) or cannot be restored (fseek fails in jsonr_peek_end),
\* a key probe (jsonr_k_case, jsonr_k_is) sets the error flag and returns
\* 0, whether the key under the cursor is the probed name or not.
C22_SeekFailureIsError ==
  (pc = "seek" /\ op \in {"jsonr_k_case", "jsonr_k_is"}) =>
    /\ j.error = 1
    /\ ret = 0

RECURSIVE Plain(_)

\* a tree the encoder writes without an escape: tables and arrays of
\* integers that are not negative, of strings and keys without a byte
\* ESCAPE_LUT has an escape for, and of such tables and arrays
Plain(tr) ==
  CASE tr.t = "string" -> \A i \in 1..Len(tr.s) : ESCAPE_LUT(tr.s[i]) = 0
    [] tr.t = "number" -> tr.n >= 0
    [] tr.t \in {"array", "table"} ->
         /\ \A i \in 1..Len(tr.kids) : Plain(tr.kids[i])
         /\ \A i \in 1..Len(tr.keys) :
              \A k \in 1..Len(tr.keys[i]) : ESCAPE_LUT(tr.keys[i][k]) = 0
    [] OTHER -> FALSE

RECURSIVE Shape(_)

\* a tree without its values: at each level, how many elements of what kind
Shape(tr) == <<tr.t, [i \in 1..Len(tr.kids) |-> Shape(tr.kids[i])]>>

\* C30: a table or array of unsigned integers, of strings and keys without
\* escapable bytes and of such tables and arrays, written with the encoder
\* and every begin closed, is skipped by jsonr_v_skip with the error flag
\* clear and the cursor past the final close bracket, which is the end of
\* the bytes written; the loops of the skip, run with the values kept, meet
\* at each level as many elements as were written.
C30_EncoderOutputDecodable ==
  (pc = "round" /\ op = "skip" /\ doc.t \in {"array", "table"} /\ Plain(doc)) =>
    /\ j.error = 0
    /\ j.overrun = 0
    /\ ftell(j.f) = Len(jw.f)
    /\ jw.f[Len(jw.f)] \in {"]", "}"}
    /\ With(ReadTree(Session(fopen(jw.f), j.uchar), <<>>), LAMBDA r :
         /\ r.j = j
         /\ Shape(r.tree) = Shape(doc))

\* the skip of {"k":[7,"a"]} has come to the end
C30_Witness ==
  /\ pc = "round"
  /\ op = "skip"
  /\ doc = TTab(<<<<"k">>>>, <<TArr(<<TInt(7), TStr(<<"a">>)>>)>>)
  /\ jw.f = <<"{", QUOTE, "k", QUOTE, ":", "[", "7", ",", QUOTE, "a", QUOTE, "]", "}">>
  /\ j.error = 0
  /\ ftell(j.f) = 13

\* the loops whose body calls jsonr_kv_skip or jsonr_v_skip
Skipping == prog.value = "skip" \/ prog.body = "case"

\* C29: on every input, a table or array loop whose body calls
\* jsonr_kv_skip or jsonr_v_skip ends after finitely many steps: every call
\* returns and the loop predicate comes to return false.
C29_SkipTerminates == Skipping ~> (pc = "done")

=============================================================================
